---- MODULE Spec2Model ----
(***************************************************************************)
(* Inference orchestration of the AI code generator: LocalInference with   *)
(* its concurrency counter, LocalModelLoader / ResourceManager /           *)
(* EnvManager behind it, APIErrorHandler.retry, the dispatchers            *)
(* (CodeGenerator.generateCode, ChatService.processMessage) and the        *)
(* ChatController session store.                                           *)
(*                                                                         *)
(* JavaScript runs every handler to completion up to its next `await`, so  *)
(* one action is the synchronous piece of code between two awaits.         *)
(***************************************************************************)
EXTENDS Integers, Sequences, FiniteSets, TLC

\* ------------------------------------------------------------------------
\* Bounds of the model
\* ------------------------------------------------------------------------
\* number of runInference / runChatInference calls that arrive
MaxArrivals == 5
\* largest maxRetries argument given to APIErrorHandler.retry
MaxRetriesInput == 5
\* number of sessions createSession makes
MaxSessions == 2
\* number of handleMessage / handleCodeGeneration calls made
MaxCalls == 2
\* addUserMessage is called on sessions shorter than this
MaxMessages == 1
\* the clock runs from 0 to this
MaxClock == 1
\* ids the dispatcher may have drawn when a dispatch starts
MaxUuids == 4

\* ------------------------------------------------------------------------
\* Program constants
\* ------------------------------------------------------------------------
MAX_CONCURRENT_INFERENCES == 4
MAX_RETRIES == 3
BASE_DELAY == 1000
MAX_DELAY == 10000

\* an optional field that is absent / a null reference
Undefined == "undefined"
NULL == "null"

VARIABLES
  \* LocalInference
  inferenceCount,      \* LocalInference.inferenceCount
  activeInferences,    \* LocalInference.activeInferences
  calls,               \* calls[kind][stage]: number of runInference ("completion") and
                       \* runChatInference ("chat") calls suspended at that await
  lastResponse,        \* the response most recently returned by such a call
  \* LocalModelLoader, ResourceManager, EnvManager
  isLoading,           \* LocalModelLoader.isLoading
  currentModel,        \* LocalModelLoader.currentModel
  modelMetadata,       \* LocalModelLoader.modelMetadata
  resourcesAllocated,  \* ResourceManager.resourcesAllocated
  config,              \* EnvManager.config is cached
  loadPc,              \* where the loadModel call in progress is
  loadOwner,           \* who awaits the loadModel call in progress
  extPc,               \* the direct caller of loadModel / unloadModel
  \* APIErrorHandler.retry
  maxRetries,          \* the maxRetries argument of the retry call
  attempt,             \* the loop variable of retry
  retryPc,             \* where the retry call is
  lastError,           \* the local variable lastError of retry
  delayMs,             \* the delay of the last sleep
  retryResult,         \* what the retry call returned or raised
  fnCalls,             \* history: number of times the operation was invoked
  sleeps,              \* history: number of times retry slept
  failures,            \* history: the classification of every failed attempt
  fnValue,             \* history: the value the operation resolved with
  \* CodeGenerator / ChatService over ExternalLLMConnector and LocalInference
  dPc,                 \* where the dispatch in progress is
  dOp,                 \* the dispatcher: generateCode or processMessage
  dLocal,              \* its useLocalModel argument
  dResponse,           \* the response in hand, at last the one it resolves to
  dFailure,            \* history: what failed along the way
  connectorConfig,     \* ExternalLLMConnector.config is set
  uuids,               \* the number of ids uuidv4() has given to requests and responses
  dRequestId,          \* the requestId of the request the dispatcher made
  dResponseId,         \* the requestId of the response in hand
  dOptions,            \* the options the dispatcher was called with
  dInvoked,            \* history: calls made to LocalInference and to the connector
  dPost,               \* history: how the post-processing of the response went
  dLanguage,           \* the language of the code response
  \* ChatController
  objects,             \* the ChatSession objects, by session id
  sessions,            \* the keys of the map ChatController.sessions
  activeSession,       \* ChatController.activeSession
  stored,              \* globalState 'chatSessions'
  storedActive,        \* globalState 'activeSession'
  savePending,         \* a saveSessions call waits for its first update
  now,                 \* Date.now()
  nextSessionId,       \* the next id uuidv4() gives to a session
  callCount,           \* handleMessage / handleCodeGeneration calls made so far
  hcalls,              \* those calls: operation, session, position, result
  thrown,              \* what the last store operation threw
  \* a caller of the ChatController getters
  returned,            \* the sessions the last getter returned, as references
  \* a caller of ResponsePostProcessor.processResponse
  post                 \* the last call: its arguments, what it found and its result

localVars == <<inferenceCount, activeInferences, calls, lastResponse>>
loaderVars == <<isLoading, currentModel, modelMetadata, resourcesAllocated, config,
                loadPc, loadOwner, extPc>>

retryVars == <<maxRetries, attempt, retryPc, lastError, delayMs, retryResult,
               fnCalls, sleeps, failures, fnValue>>

dispatchVars == <<dPc, dOp, dLocal, dResponse, dFailure, connectorConfig,
                  uuids, dRequestId, dResponseId, dOptions, dInvoked, dPost,
                  dLanguage>>

storeVars == <<objects, sessions, activeSession, stored, storedActive, savePending,
               now, nextSessionId, callCount, hcalls, thrown>>

callerVars == <<returned>>

postVars == <<post>>

vars == <<localVars, loaderVars, retryVars, dispatchVars, storeVars, callerVars,
          postVars>>

\* what the actions of one component leave alone
outsideLocal == <<retryVars, dispatchVars, storeVars, callerVars, postVars>>
outsideRetry == <<localVars, loaderVars, dispatchVars, storeVars, callerVars, postVars>>
outsideDispatch == <<storeVars, callerVars, postVars>>
outsideStore == <<localVars, loaderVars, retryVars, dispatchVars, callerVars, postVars>>

\* runInference serves completion requests, runChatInference chat requests; both
\* run on the one LocalInference instance
Kinds == {"completion", "chat"}

\* the awaits of runInference / runChatInference a call can be suspended at:
\*   loading     ensureModelLoaded, which runs loadModel for this call
\*   inProgress  ensureModelLoaded, rejected because another load is in progress
\*   loadFailed  ensureModelLoaded, rejected because this call's load failed
\*   ensured     ensureModelLoaded, resolved
\*   cfgHit      envManager.loadConfig(), answered from the cache
\*   cfgRead     envManager.loadConfig(), reading settings.json
\*   timer       the inference delay
Stages == {"loading", "inProgress", "loadFailed", "ensured", "cfgHit", "cfgRead", "timer"}

RECURSIVE SumOver(_, _)
SumOver(S, f) ==
  IF S = {} THEN 0
  ELSE LET x == CHOOSE y \in S : TRUE IN f[x] + SumOver(S \ {x}, f)

\* the number of calls that were admitted and have not completed
InFlight == SumOver(Kinds, [k \in Kinds |-> SumOver(Stages, calls[k])])

Put(c, k, stage) == [c EXCEPT ![k][stage] = @ + 1]

Take(c, k, stage) == [c EXCEPT ![k][stage] = @ - 1]

NoResponse == [generatedText |-> "", error |-> Undefined, finishReason |-> Undefined,
               sourceType |-> Undefined]

SourceOf(kind) == IF kind = "chat" THEN "local" ELSE Undefined

BUSY_MESSAGE == "Maximum concurrent inferences limit reached. Please try again later."

BusyResponse(kind) ==
  [generatedText |-> "", error |-> BUSY_MESSAGE, finishReason |-> "error",
   sourceType |-> SourceOf(kind)]

MockResponse(kind) ==
  [generatedText |-> "mock response", error |-> Undefined, finishReason |-> "stop",
   sourceType |-> SourceOf(kind)]

FailedResponse(kind, message) ==
  [generatedText |-> "",
   error |-> (IF kind = "chat" THEN "Local chat inference failed: "
                               ELSE "Local inference failed: ") \o message,
   finishReason |-> "error", sourceType |-> SourceOf(kind)]

\* ------------------------------------------------------------------------
\* The concurrency counter
\* ------------------------------------------------------------------------
AtLimit_OffByOne(n) == n > MAX_CONCURRENT_INFERENCES

\* the limit check that turns calls away one slot early
AtLimit_OneEarly(n) == n >= MAX_CONCURRENT_INFERENCES - 1

\* the limit check that never turns a call away
AtLimit_Never(n) == FALSE

AtLimit(n) == n >= MAX_CONCURRENT_INFERENCES

Admit(n) == n + 1

Release_OnSuccessOnly(n, response) ==
  IF response.finishReason = "error" THEN n ELSE n - 1

\* the finally block: it runs whatever response the call returns
Release(n, response) == n - 1

\* ------------------------------------------------------------------------
\* LocalModelLoader.loadModel / unloadModel, with ResourceManager and EnvManager
\* ------------------------------------------------------------------------
NoOwner == "none"
ExtCaller == "direct"

\* EnvManager.loadConfig up to its first await: a cached config is returned,
\* otherwise settings.json is read
LoadConfigCall(hit, read) == IF config THEN hit ELSE read

\* how that read ends: the configuration is cached and returned; reading or
\* parsing fails; the configuration is cached and the secret storage fails
ReadOutcomes == {"ok", "readFails", "secretFails"}

\* EnvManager.config after the read
Cached(outcome) == config \/ outcome # "readFails"

\* ResourceManager.allocateResources: sets the flag, a no-op when it is set
AllocateResources(allocated) == IF allocated THEN allocated ELSE TRUE

\* releaseResources that flips the flag
ReleaseResources_Toggles(allocated) == ~allocated

\* ResourceManager.releaseResources: clears the flag, a no-op when it is clear
ReleaseResources(allocated) == IF ~allocated THEN allocated ELSE FALSE

\* a catch block that clears the model and keeps the resources
LoadCatchEnter_KeepsResources ==
  /\ currentModel' = NULL
  /\ modelMetadata' = NULL
  /\ resourcesAllocated' = resourcesAllocated
  /\ loadPc' = "catch"

\* the catch block of loadModel up to `await ResourceManager.releaseResources()`;
\* releaseResources resets the flags in its synchronous body
LoadCatchEnter ==
  /\ currentModel' = NULL
  /\ modelMetadata' = NULL
  /\ resourcesAllocated' = ReleaseResources(resourcesAllocated)
  /\ loadPc' = "catch"

\* loadModel(modelPath) once the isLoading check has passed, up to its first await
LoadModelStart(owner, withPath) ==
  /\ isLoading' = TRUE
  /\ loadOwner' = owner
  /\ IF withPath
       THEN \E exists \in BOOLEAN :
              IF exists
                THEN /\ loadPc' = "meta"
                     /\ UNCHANGED <<currentModel, modelMetadata, resourcesAllocated>>
                ELSE LoadCatchEnter
       ELSE /\ loadPc' = LoadConfigCall("pathHit", "pathRead")
            /\ UNCHANGED <<currentModel, modelMetadata, resourcesAllocated>>
  /\ UNCHANGED config

\* getModelPath() has settled: the configuration could not be read, no path is
\* configured, the path does not exist, or extractModelMetadata is started
LoadPath ==
  /\ loadPc \in {"pathHit", "pathRead"}
  /\ \E outcome \in {"ok", "noPath", "missing"}
                      \cup (IF loadPc = "pathRead" THEN {"readFails", "secretFails"}
                                                   ELSE {}) :
       /\ config' = Cached(outcome)
       /\ IF outcome = "ok"
            THEN /\ loadPc' = "meta"
                 /\ UNCHANGED <<currentModel, modelMetadata, resourcesAllocated>>
            ELSE LoadCatchEnter
  /\ UNCHANGED <<isLoading, loadOwner, extPc, localVars>>
  /\ UNCHANGED outsideLocal

\* extractModelMetadata resolved (it never rejects); checkResources is called
LoadMeta ==
  /\ loadPc = "meta"
  /\ modelMetadata' = "metadata"
  /\ loadPc' = "check"
  /\ UNCHANGED <<isLoading, currentModel, resourcesAllocated, config, loadOwner,
                 extPc, localVars>>
  /\ UNCHANGED outsideLocal

\* checkResources resolved: insufficient memory throws, otherwise
\* allocateResources is called
LoadCheck ==
  /\ loadPc = "check"
  /\ \E sufficient \in BOOLEAN :
       IF sufficient
         THEN /\ resourcesAllocated' = AllocateResources(resourcesAllocated)
              /\ loadPc' = "alloc"
              /\ UNCHANGED <<currentModel, modelMetadata>>
         ELSE LoadCatchEnter
  /\ UNCHANGED <<isLoading, config, loadOwner, extPc, localVars>>
  /\ UNCHANGED outsideLocal

\* finally that leaves isLoading set when the load failed
LoadSettles_StaysLoadingOnFailure(stage) ==
  /\ isLoading' = (stage = "loadFailed")
  /\ loadPc' = "none"
  /\ loadOwner' = NoOwner
  /\ IF loadOwner = ExtCaller
       THEN extPc' = "idle" /\ UNCHANGED calls
       ELSE /\ calls' = Put(Take(calls, loadOwner, "loading"), loadOwner, stage)
            /\ UNCHANGED extPc

\* the awaited loadModel settles for its caller
LoadSettles(stage) ==
  /\ isLoading' = FALSE
  /\ loadPc' = "none"
  /\ loadOwner' = NoOwner
  /\ IF loadOwner = ExtCaller
       THEN extPc' = "idle" /\ UNCHANGED calls
       ELSE /\ calls' = Put(Take(calls, loadOwner, "loading"), loadOwner, stage)
            /\ UNCHANGED extPc

\* allocateResources resolved: the model is installed, finally clears isLoading
\* and the caller's await resolves
LoadAlloc ==
  /\ loadPc = "alloc"
  /\ currentModel' = "model"
  /\ LoadSettles("ensured")
  /\ UNCHANGED <<modelMetadata, resourcesAllocated, config,
                 inferenceCount, activeInferences, lastResponse>>
  /\ UNCHANGED outsideLocal

\* releaseResources resolved in the catch block: the error is rethrown, finally
\* clears isLoading and the caller's await rejects
LoadCatch ==
  /\ loadPc = "catch"
  /\ LoadSettles("loadFailed")
  /\ UNCHANGED <<currentModel, modelMetadata, resourcesAllocated, config,
                 inferenceCount, activeInferences, lastResponse>>
  /\ UNCHANGED outsideLocal

\* a direct loadModel call (with or without a path): rejected at once while
\* another load is in progress
loadModel(withPath) ==
  /\ extPc = "idle"
  /\ IF isLoading
       THEN UNCHANGED loaderVars
       ELSE /\ LoadModelStart(ExtCaller, withPath)
            /\ extPc' = "loading"
  /\ UNCHANGED localVars
  /\ UNCHANGED outsideLocal

\* unloadModel up to `await ResourceManager.releaseResources()`
unloadModel ==
  /\ extPc = "idle"
  /\ IF currentModel # NULL
       THEN /\ resourcesAllocated' = ReleaseResources(resourcesAllocated)
            /\ extPc' = "unloading"
       ELSE UNCHANGED <<resourcesAllocated, extPc>>
  /\ UNCHANGED <<isLoading, currentModel, modelMetadata, config, loadPc, loadOwner,
                 localVars>>
  /\ UNCHANGED outsideLocal

\* unloadModel after the await
UnloadFinish ==
  /\ extPc = "unloading"
  /\ currentModel' = NULL
  /\ modelMetadata' = NULL
  /\ extPc' = "idle"
  /\ UNCHANGED <<isLoading, resourcesAllocated, config, loadPc, loadOwner, localVars>>
  /\ UNCHANGED outsideLocal

\* ------------------------------------------------------------------------
\* LocalInference.runInference / runChatInference
\* ------------------------------------------------------------------------
\* the call suspended at `stage` settles: the response is returned and finally
\* releases the slot
Complete(k, stage, response) ==
  /\ calls' = Take(calls, k, stage)
  /\ lastResponse' = response
  /\ activeInferences' = Release(activeInferences, response)

\* the synchronous head of the call: count, limit check, admission, and
\* ensureModelLoaded up to its await
Enter(k) ==
  /\ inferenceCount < MaxArrivals
  /\ inferenceCount' = inferenceCount + 1
  /\ IF AtLimit(activeInferences)
       THEN /\ lastResponse' = BusyResponse(k)
            /\ UNCHANGED <<activeInferences, calls, loaderVars>>
       ELSE /\ activeInferences' = Admit(activeInferences)
            /\ UNCHANGED lastResponse
            /\ IF currentModel # NULL
                 THEN /\ calls' = Put(calls, k, "ensured")
                      /\ UNCHANGED loaderVars
                 ELSE IF isLoading
                   THEN /\ calls' = Put(calls, k, "inProgress")
                        /\ UNCHANGED loaderVars
                   ELSE /\ calls' = Put(calls, k, "loading")
                        /\ LoadModelStart(k, FALSE)
                        /\ UNCHANGED extPc

runInference == Enter("completion") /\ UNCHANGED outsideLocal

runChatInference == Enter("chat") /\ UNCHANGED outsideLocal

\* ensureModelLoaded resolved: the prompt is preprocessed and loadConfig awaited
AfterEnsure(k) ==
  /\ calls[k]["ensured"] > 0
  /\ calls' = Put(Take(calls, k, "ensured"), k, LoadConfigCall("cfgHit", "cfgRead"))
  /\ UNCHANGED <<inferenceCount, activeInferences, lastResponse, loaderVars>>
  /\ UNCHANGED outsideLocal

\* ensureModelLoaded rejected: catch builds the error response
AfterReject(k) ==
  /\ \E stage \in {"inProgress", "loadFailed"} :
       /\ calls[k][stage] > 0
       /\ Complete(k, stage,
                   FailedResponse(k, IF stage = "inProgress"
                                       THEN "Model loading already in progress"
                                       ELSE "model could not be loaded"))
  /\ UNCHANGED <<inferenceCount, loaderVars>>
  /\ UNCHANGED outsideLocal

\* loadConfig settled: a failed read throws; getModel() throws when no model is
\* loaded any more; otherwise the (mock) inference delay is awaited
AfterConfig(k) ==
  /\ \E stage \in {"cfgHit", "cfgRead"} :
       /\ calls[k][stage] > 0
       /\ \E outcome \in (IF stage = "cfgRead" THEN ReadOutcomes ELSE {"ok"}) :
            /\ config' = Cached(outcome)
            /\ IF outcome # "ok"
                 THEN Complete(k, stage,
                               FailedResponse(k, "Failed to load configuration"))
                 ELSE IF currentModel = NULL
                   THEN Complete(k, stage,
                                 FailedResponse(k, "No model currently loaded"))
                   ELSE /\ calls' = Put(Take(calls, k, stage), k, "timer")
                        /\ UNCHANGED <<activeInferences, lastResponse>>
  /\ UNCHANGED <<inferenceCount, isLoading, currentModel, modelMetadata,
                 resourcesAllocated, loadPc, loadOwner, extPc>>
  /\ UNCHANGED outsideLocal

\* the inference delay elapsed: the response is built and returned
AfterTimer(k) ==
  /\ calls[k]["timer"] > 0
  /\ Complete(k, "timer", MockResponse(k))
  /\ UNCHANGED <<inferenceCount, loaderVars>>
  /\ UNCHANGED outsideLocal

\* ------------------------------------------------------------------------
\* APIErrorHandler: categorizeError, calculateBackoff, retry
\* ------------------------------------------------------------------------
\* HTTP statuses of failed responses
Statuses == {302, 400, 401, 403, 404, 408, 429, 500, 503}

\* Retry-After headers of a 429 response: none, empty, two seconds, one day
RetryAfters == {Undefined, "", "2", "86400"}

\* what the operation can reject with: a non-axios error, an axios error
\* without a response, an axios error with a response
NonAxiosError ==
  [isAxios |-> FALSE, hasResponse |-> FALSE, status |-> 0, code |-> Undefined,
   retryAfter |-> Undefined]

Errors ==
  {NonAxiosError}
  \cup {[isAxios |-> TRUE, hasResponse |-> FALSE, status |-> 0, code |-> c,
         retryAfter |-> Undefined] : c \in {"ERR_NETWORK", "ECONNABORTED"}}
  \cup {[isAxios |-> TRUE, hasResponse |-> TRUE, status |-> st, code |-> c,
         retryAfter |-> Undefined] :
           st \in Statuses, c \in {"ERR_BAD_RESPONSE", "ECONNABORTED"}}
  \cup {[isAxios |-> TRUE, hasResponse |-> TRUE, status |-> 429,
         code |-> "ERR_BAD_RESPONSE", retryAfter |-> ra] : ra \in RetryAfters}

NoError ==
  [isAxios |-> FALSE, hasResponse |-> FALSE, status |-> 0, code |-> Undefined,
   retryAfter |-> "no error"]

\* the failures of the HTTP client seen on the dispatch path: no response, a
\* rate-limit response with a Retry-After header, a rejected key, a malformed
\* request, a server failure
ClientErrors ==
  {e \in Errors :
     \/ ~e.hasResponse /\ e.code = "ERR_NETWORK"
     \/ e.status = 429 /\ e.retryAfter = "2"
     \/ e.status \in {401, 400, 503} /\ e.code = "ERR_BAD_RESPONSE"}

\* what the operation can resolve with
Values == {"response A", "response B"}

Details(type, retryable, message) ==
  [type |-> type, retryable |-> retryable, message |-> message]

categorizeError_RetryClientErrors(error) ==
  IF error.isAxios /\ ~error.hasResponse
    THEN Details("network", TRUE, "Network error occurred")
  ELSE IF error.isAxios /\ (error.status = 408 \/ error.code = "ECONNABORTED")
    THEN Details("timeout", TRUE, "Request timed out")
  ELSE IF error.isAxios /\ error.status = 429
    THEN Details("rate_limit", TRUE, "Rate limit exceeded")
  ELSE IF error.isAxios /\ (error.status = 401 \/ error.status = 403)
    THEN Details("authentication", FALSE, "Authentication failed")
  ELSE IF error.isAxios /\ error.status >= 400 /\ error.status < 500
    THEN Details("bad_request", TRUE, "Bad request")
  ELSE IF error.isAxios /\ error.status >= 500
    THEN Details("server", TRUE, "Server error")
  ELSE Details("unknown", FALSE, "unknown error")

categorizeError(error) ==
  IF error.isAxios /\ ~error.hasResponse
    THEN Details("network", TRUE, "Network error occurred")
  ELSE IF error.isAxios /\ (error.status = 408 \/ error.code = "ECONNABORTED")
    THEN Details("timeout", TRUE, "Request timed out")
  ELSE IF error.isAxios /\ error.status = 429
    THEN Details("rate_limit", TRUE, "Rate limit exceeded")
  ELSE IF error.isAxios /\ (error.status = 401 \/ error.status = 403)
    THEN Details("authentication", FALSE, "Authentication failed")
  ELSE IF error.isAxios /\ error.status >= 400 /\ error.status < 500
    THEN Details("bad_request", FALSE, "Bad request")
  ELSE IF error.isAxios /\ error.status >= 500
    THEN Details("server", TRUE, "Server error")
  ELSE Details("unknown", FALSE, "unknown error")

RECURSIVE Pow2(_)
Pow2(n) == IF n = 0 THEN 1 ELSE 2 * Pow2(n - 1)

Min(a, b) == IF a < b THEN a ELSE b

Max(a, b) == IF a > b THEN a ELSE b

\* the jitter (Math.random() * 0.6) - 0.3, in percent
Jitters == {-30, 0, 30}

\* the backoff without its final clamp to [BASE_DELAY, MAX_DELAY]
calculateBackoff_Unclamped(n, jitter) ==
  LET exponentialDelay == Min(MAX_DELAY, BASE_DELAY * Pow2(n))
  IN (exponentialDelay * (100 + jitter)) \div 100

calculateBackoff(n, jitter) ==
  LET exponentialDelay == Min(MAX_DELAY, BASE_DELAY * Pow2(n))
      delay == (exponentialDelay * (100 + jitter)) \div 100
  IN Min(MAX_DELAY, Max(BASE_DELAY, delay))

\* parseInt(retryAfter, 10) of the Retry-After headers above
ParseInt(text) ==
  IF text = "2" THEN 2
  ELSE IF text = "86400" THEN 86400
  ELSE 0

\* `if (retryAfter)`: the header is present and not empty
HasRetryAfter(error) == error.retryAfter \notin {Undefined, ""}

\* the delay that ignores the Retry-After header
DelayFor_IgnoresHeader(error, details, n, jitter) == calculateBackoff(n, jitter)

\* the delay before the next attempt: the Retry-After header of a rate-limit
\* response when it is present, the backoff otherwise
DelayFor(error, details, n, jitter) ==
  IF details.type = "rate_limit" /\ error.isAxios /\ error.hasResponse
     /\ HasRetryAfter(error)
    THEN ParseInt(error.retryAfter) * 1000
    ELSE calculateBackoff(n, jitter)

Exhausted_OffByOne(n, max) == n > max

Exhausted_Early(n, max) == n + 1 >= max

\* `attempt >= maxRetries`: no retry is left
Exhausted(n, max) == n >= max

\* the throw after the loop
Raise ==
  /\ retryPc' = "raised"
  /\ retryResult' = [ok |-> FALSE, value |-> Undefined, attempts |-> maxRetries + 1,
                     message |-> categorizeError(lastError').message]

\* no retry call is in progress: its locals do not exist
RetryIdle ==
  /\ maxRetries' = 0
  /\ attempt' = 0
  /\ retryPc' = "idle"
  /\ lastError' = NoError
  /\ delayMs' = 0
  /\ retryResult' = [ok |-> FALSE, value |-> Undefined, attempts |-> 0,
                     message |-> Undefined]
  /\ fnCalls' = 0
  /\ sleeps' = 0
  /\ failures' = <<>>
  /\ fnValue' = Undefined

\* retry(fn, maxRetries) up to the first call of the operation
RetryStart(max) ==
  /\ maxRetries' = max
  /\ attempt' = 0
  /\ lastError' = NoError
  /\ failures' = <<>>
  /\ sleeps' = 0
  /\ fnValue' = Undefined
  /\ delayMs' = 0
  /\ retryResult' = [ok |-> FALSE, value |-> Undefined, attempts |-> 0,
                     message |-> Undefined]
  /\ retryPc' = "calling"
  /\ fnCalls' = 1

retry(max) ==
  /\ retryPc \in {"idle", "returned", "raised"}
  /\ RetryStart(max)
  /\ UNCHANGED outsideRetry

\* the operation resolved: `return await fn()`
FnResolves(v) ==
  /\ retryPc = "calling"
  /\ fnValue' = v
  /\ retryPc' = "returned"
  /\ retryResult' = [ok |-> TRUE, value |-> v, attempts |-> fnCalls,
                     message |-> Undefined]
  /\ UNCHANGED <<maxRetries, attempt, lastError, delayMs, fnCalls, sleeps, failures>>
  /\ UNCHANGED outsideRetry

\* the operation rejected: the catch block, up to the sleep or to the throw
FnRejects(error, jitter) ==
  /\ retryPc = "calling"
  /\ lastError' = error
  /\ LET errorDetails == categorizeError(error) IN
       /\ failures' = Append(failures, errorDetails.type)
       /\ IF ~errorDetails.retryable \/ Exhausted(attempt, maxRetries)
            THEN /\ Raise
                 /\ UNCHANGED <<delayMs, sleeps>>
            ELSE /\ delayMs' = DelayFor(error, errorDetails, attempt, jitter)
                 /\ sleeps' = sleeps + 1
                 /\ retryPc' = "sleeping"
                 /\ UNCHANGED retryResult
  /\ UNCHANGED <<maxRetries, attempt, fnCalls, fnValue>>
  /\ UNCHANGED outsideRetry

\* the sleep is over: attempt++ and the loop head
DelayElapsed ==
  /\ retryPc = "sleeping"
  /\ attempt' = attempt + 1
  /\ IF attempt + 1 <= maxRetries
       THEN /\ retryPc' = "calling"
            /\ fnCalls' = fnCalls + 1
            /\ UNCHANGED retryResult
       ELSE /\ Raise
            /\ UNCHANGED fnCalls
  /\ UNCHANGED <<maxRetries, lastError, delayMs, sleeps, failures, fnValue>>
  /\ UNCHANGED outsideRetry

\* ------------------------------------------------------------------------
\* The dispatchers: CodeGenerator.generateCode and ChatService.processMessage,
\* over ExternalLLMConnector (remote) and LocalInference (local)
\* ------------------------------------------------------------------------
KindOf(op) == IF op = "generateCode" THEN "completion" ELSE "chat"

\* no requestId
NoId == 0

\* uuidv4(): the n ids drawn so far are 1..n, the next one is new
uuidv4(n) == n + 1

\* `request.requestId || uuidv4()` in the connector and in LocalInference
RequestIdOf(requestId, n) == IF requestId # NoId THEN requestId ELSE uuidv4(n)

\* finish_reason values of an API response; "null" stands for any value that is
\* not in the map
FinishReasons == {"stop", "length", "content_filter", "null"}

mapFinishReason(openaiReason) ==
  IF openaiReason \in {"stop", "length", "content_filter"} THEN openaiReason
  ELSE "error"

\* the result of sendCompletionRequest / sendChatRequest built from a valid
\* API response
ApiResponse(kind, text, reason) ==
  [generatedText |-> text, error |-> Undefined,
   finishReason |-> mapFinishReason(reason),
   sourceType |-> IF kind = "chat" THEN "api" ELSE Undefined]

\* the errorResponse of their catch blocks
ApiErrorResponse(kind, message) ==
  [generatedText |-> "",
   error |-> (IF kind = "chat" THEN "Chat API request failed: "
                               ELSE "API request failed: ") \o message,
   finishReason |-> "error",
   sourceType |-> IF kind = "chat" THEN "api" ELSE Undefined]

\* the response of the catch block of generateCode
CodeErrorResponse(message) ==
  [generatedText |-> "", error |-> "Code generation failed: " \o message,
   finishReason |-> "error", sourceType |-> Undefined]

\* the response of the catch block of processMessage: the message goes into
\* generatedText and no error field is set
ChatErrorResponse(message, useLocalModel) ==
  [generatedText |->
     "I'm sorry, I encountered an error while processing your message: " \o message,
   error |-> Undefined, finishReason |-> "error",
   sourceType |-> IF useLocalModel THEN "local" ELSE "api"]

\* the options of generateCode: language and useLocalModel are optional
GenerateOptions ==
  { [language |-> "typescript"],
    [language |-> "python", useLocalModel |-> TRUE],
    [useLocalModel |-> FALSE],
    [useLocalModel |-> TRUE] }

\* `options.useLocalModel ?? false` with a backend switched by default
UseLocalModel_DefaultsToLocal(options) ==
  IF "useLocalModel" \in DOMAIN options THEN options.useLocalModel ELSE TRUE

\* `options.useLocalModel ?? false`
UseLocalModel(options) ==
  IF "useLocalModel" \in DOMAIN options THEN options.useLocalModel ELSE FALSE

\* what PromptParser.detectLanguage finds in the prompt
DetectedLanguages == {NULL, "javascript"}

\* `options.language || detected || 'plaintext'`
LanguageOf(options, detected) ==
  IF "language" \in DOMAIN options /\ options.language # "" THEN options.language
  ELSE IF detected # NULL THEN detected
  ELSE "plaintext"

NoneInvoked == [local |-> 0, api |-> 0]

\* one more call to runInference / runChatInference or to the connector
Invoke(invoked, useLocalModel) ==
  IF useLocalModel THEN [invoked EXCEPT !.local = @ + 1]
  ELSE [invoked EXCEPT !.api = @ + 1]

\* an exception reaches the catch block of the dispatcher
Caught(op, useLocalModel, message, failure) ==
  /\ dPc' = "done"
  /\ dLanguage' = IF op = "generateCode" THEN LanguageOf(dOptions, NULL) ELSE Undefined
  /\ dFailure' = failure
  /\ dResponse' = IF op = "generateCode" THEN CodeErrorResponse(message)
                  ELSE ChatErrorResponse(message, useLocalModel)
  /\ IF op = "generateCode"
       THEN dResponseId' = dRequestId /\ UNCHANGED uuids
       ELSE dResponseId' = uuidv4(uuids) /\ uuids' = uuidv4(uuids)

\* the connector or LocalInference returned `response` to the dispatcher:
\* generateCode awaits processResponse, processMessage throws on response.error
\* and returns the response otherwise
Returned(op, useLocalModel, response, failure) ==
  IF op = "generateCode"
    THEN /\ dPc' = "post"
         /\ dResponse' = response
         /\ dFailure' = failure
         /\ dResponseId' = RequestIdOf(dRequestId, uuids)
         /\ UNCHANGED <<uuids, dLanguage>>
    ELSE IF response.error \notin {Undefined, ""}
      THEN Caught(op, useLocalModel, response.error, failure)
      ELSE /\ dPc' = "done"
           /\ dResponse' = response
           /\ dFailure' = failure
           /\ dResponseId' = RequestIdOf(dRequestId, uuids)
           /\ UNCHANGED <<uuids, dLanguage>>

\* sendCompletionRequest / sendChatRequest once this.config is set, up to the
\* await of APIErrorHandler.retry
SendRequest ==
  /\ RetryStart(MAX_RETRIES)
  /\ dPc' = "retrying"

\* sendCompletionRequest / sendChatRequest from their first line: initialize()
\* is awaited while this.config is not set
SendStart ==
  IF connectorConfig
    THEN SendRequest
    ELSE /\ dPc' = LoadConfigCall("initOk", "initRead")
         /\ UNCHANGED retryVars

\* the dispatcher turns to LocalInference or to the connector
Route(op, useLocalModel, invoked) ==
  /\ dInvoked' = Invoke(invoked, useLocalModel)
  /\ IF useLocalModel
       THEN /\ Enter(KindOf(op))
            /\ dPc' = "local"
            /\ UNCHANGED retryVars
       ELSE /\ SendStart
            /\ UNCHANGED <<localVars, loaderVars>>

\* generateCode up to the await of runInference / sendCompletionRequest
generateCode(options) ==
  /\ dPc \in {"idle", "done"}
  /\ dOp' = "generateCode"
  /\ dOptions' = options
  /\ dLocal' = UseLocalModel(options)
  /\ dResponse' = NoResponse
  /\ dFailure' = "none"
  /\ dPost' = "none"
  /\ dLanguage' = Undefined
  /\ uuids' = uuidv4(uuids)
  /\ dRequestId' = uuidv4(uuids)
  /\ dResponseId' = NoId
  /\ Route("generateCode", UseLocalModel(options), NoneInvoked)
  /\ UNCHANGED connectorConfig
  /\ UNCHANGED outsideDispatch

\* processMessage up to `await this.envManager.loadConfig()`
processMessage(useLocalModel) ==
  /\ dPc \in {"idle", "done"}
  /\ dOp' = "processMessage"
  /\ dOptions' = [useLocalModel |-> useLocalModel]
  /\ dLocal' = useLocalModel
  /\ dResponse' = NoResponse
  /\ dFailure' = "none"
  /\ dPost' = "none"
  /\ dLanguage' = Undefined
  /\ dInvoked' = NoneInvoked
  /\ uuids' = uuidv4(uuids)
  /\ dRequestId' = uuidv4(uuids)
  /\ dResponseId' = NoId
  /\ dPc' = LoadConfigCall("cfgOk", "cfgRead")
  /\ UNCHANGED <<connectorConfig, localVars, loaderVars, retryVars>>
  /\ UNCHANGED outsideDispatch

\* EnvManager.loadConfig after its read of settings.json: the configuration is
\* cached, or the call throws
ConfigRead ==
  /\ dPc \in {"cfgRead", "initRead"}
  /\ \E outcome \in ReadOutcomes :
       /\ config' = Cached(outcome)
       /\ dPc' = IF dPc = "cfgRead"
                   THEN (IF outcome = "ok" THEN "cfgOk" ELSE "cfgFailed")
                   ELSE (IF outcome = "ok" THEN "initOk" ELSE "initFailed")
  /\ UNCHANGED <<dOp, dLocal, dResponse, dFailure, connectorConfig,
                 uuids, dRequestId, dResponseId, dOptions, dInvoked, dPost,
                 dLanguage>>
  /\ UNCHANGED <<localVars, isLoading, currentModel, modelMetadata,
                 resourcesAllocated, loadPc, loadOwner, extPc, retryVars>>
  /\ UNCHANGED outsideDispatch

\* processMessage after loadConfig settled
ProcessAfterConfig ==
  /\ dPc \in {"cfgOk", "cfgFailed"}
  /\ IF dPc = "cfgOk"
       THEN /\ Route("processMessage", dLocal, dInvoked)
            /\ UNCHANGED <<dResponse, dFailure, uuids, dResponseId, dLanguage>>
       ELSE /\ Caught("processMessage", dLocal, "Failed to load configuration",
                      "config")
            /\ UNCHANGED <<localVars, loaderVars, retryVars, dInvoked>>
  /\ UNCHANGED <<dOp, dLocal, connectorConfig, dRequestId, dOptions, dPost>>
  /\ UNCHANGED outsideDispatch

\* initialize() settled inside sendCompletionRequest / sendChatRequest: the
\* request is sent, or the rejection leaves the connector outside its try block
\* and reaches the dispatcher
AfterInitialize ==
  /\ dPc \in {"initOk", "initFailed"}
  /\ IF dPc = "initOk"
       THEN /\ connectorConfig' = TRUE
            /\ SendRequest
            /\ UNCHANGED <<dResponse, dFailure, uuids, dResponseId, dLanguage>>
       ELSE /\ Caught(dOp, dLocal,
                      "Failed to initialize ExternalLLMConnector: Failed to load configuration",
                      "config")
            /\ UNCHANGED <<connectorConfig, retryVars>>
  /\ UNCHANGED <<dOp, dLocal, dRequestId, dOptions, dInvoked, dPost, localVars,
                 loaderVars>>
  /\ UNCHANGED outsideDispatch

\* texts of the first choice of an API response
ChoiceTexts == {"", "code"}

\* APIErrorHandler.retry settled: the connector validates the API response and
\* builds its result, or its catch block builds the error response; the
\* dispatcher goes on with what the connector returns, and the retry call is over
AfterRetry ==
  /\ dPc = "retrying"
  /\ retryPc \in {"returned", "raised"}
  /\ IF retryPc = "raised"
       THEN Returned(dOp, dLocal, ApiErrorResponse(KindOf(dOp), retryResult.message),
                     "transport")
       ELSE \E valid \in BOOLEAN, text \in ChoiceTexts, reason \in FinishReasons :
              IF valid
                THEN Returned(dOp, dLocal, ApiResponse(KindOf(dOp), text, reason),
                              "none")
                ELSE Returned(dOp, dLocal,
                              ApiErrorResponse(KindOf(dOp), "invalid API response"),
                              "validation")
  /\ RetryIdle
  /\ UNCHANGED <<dOp, dLocal, connectorConfig, dRequestId, dOptions, dInvoked, dPost,
                 localVars, loaderVars>>
  /\ UNCHANGED outsideDispatch

\* runInference / runChatInference returned its response to the dispatcher
AfterLocal ==
  /\ dPc = "local"
  /\ InFlight = 0
  /\ Returned(dOp, dLocal, lastResponse,
              IF lastResponse.error = Undefined THEN "none" ELSE "local")
  /\ UNCHANGED <<dOp, dLocal, connectorConfig, dRequestId, dOptions, dInvoked, dPost,
                 localVars, loaderVars, retryVars>>
  /\ UNCHANGED outsideDispatch

\* what becomes of the text: code is extracted and formatted; the text holds no
\* code; prettier fails, which formatCode catches; extraction or formatting
\* throws, which processResponse catches
PostOutcomes == {"formatted", "noCode", "formatFails", "throws"}

\* ResponsePostProcessor.processResponse
processResponse(response, outcome) ==
  IF response.error \notin {Undefined, ""} \/ response.generatedText = ""
    THEN response
  ELSE IF outcome = "formatted"
    THEN [response EXCEPT !.generatedText = "formatted code"]
  ELSE response

\* processResponse resolved in generateCode: codeResponse is built and returned
AfterPostProcess ==
  /\ dPc = "post"
  /\ \E outcome \in PostOutcomes :
       /\ dResponse' = processResponse(dResponse, outcome)
       /\ dFailure' = IF /\ dFailure = "none"
                         /\ dResponse.error \in {Undefined, ""}
                         /\ dResponse.generatedText # ""
                         /\ outcome \in {"formatFails", "throws"}
                        THEN "postProcess" ELSE dFailure
       /\ dPost' = IF dResponse.error \notin {Undefined, ""} \/ dResponse.generatedText = ""
                     THEN "skipped" ELSE outcome
  /\ \E detected \in DetectedLanguages : dLanguage' = LanguageOf(dOptions, detected)
  /\ dPc' = "done"
  /\ UNCHANGED <<dOp, dLocal, connectorConfig, uuids, dRequestId, dResponseId,
                 dOptions, dInvoked, localVars, loaderVars, retryVars>>
  /\ UNCHANGED outsideDispatch

\* ------------------------------------------------------------------------
\* ChatController: the session store
\* ------------------------------------------------------------------------
\* activeSession = null
NoSession == 0

SessionIds == 1..MaxSessions

Calls == 1..MaxCalls

\* a string that is neither undefined nor empty
Truthy(text) == text \notin {Undefined, ""}

\* a ChatMessage; `call` tells which handleMessage / handleCodeGeneration call
\* made it (0: none), its id and timestamp are left out
Message(role, content, call) == [role |-> role, content |-> content, call |-> call]

\* session.messages.push(message)
Push_Unshift(messages, message) == <<message>> \o messages

Push_DropsReply(messages, message) ==
  IF message.role = "assistant" THEN messages ELSE Append(messages, message)

Push(messages, message) == Append(messages, message)

\* messages.findIndex(msg => msg.role === 'system'), 0 when there is none
SystemMessageIndex(messages) ==
  IF \E i \in 1..Len(messages) : messages[i].role = "system"
    THEN CHOOSE i \in 1..Len(messages) :
           /\ messages[i].role = "system"
           /\ \A j \in 1..(i - 1) : messages[j].role # "system"
    ELSE 0

RemoveAt(messages, i) ==
  SubSeq(messages, 1, i - 1) \o SubSeq(messages, i + 1, Len(messages))

\* updateSession that always inserts a system message in front
SetSystemMessage_AlwaysInsert(messages, text) ==
  IF Truthy(text) THEN <<Message("system", text, 0)>> \o messages
  ELSE messages

\* updateSession that writes the system message over the first message
SetSystemMessage_RewritesFirst(messages, text) ==
  IF Truthy(text) /\ Len(messages) > 0
    THEN [messages EXCEPT ![1] = Message("system", text, 0)]
    ELSE messages

\* updateSession on the system message: it is rewritten in place, put in front,
\* or removed
SetSystemMessage(messages, text) ==
  LET systemMessageIndex == SystemMessageIndex(messages) IN
  IF Truthy(text)
    THEN IF systemMessageIndex > 0
           THEN [messages EXCEPT ![systemMessageIndex].content = text]
           ELSE <<Message("system", text, 0)>> \o messages
    ELSE IF systemMessageIndex > 0 THEN RemoveAt(messages, systemMessageIndex)
         ELSE messages

\* the merge that keeps nothing of the old metadata
MergeMetadata_Overwrites(old, new) == new

\* { ...session.metadata, ...updates.metadata } on sets of <<key, value>>
MergeMetadata(old, new) ==
  {p \in old : \A q \in new : q[1] # p[1]} \cup new

\* the `updates` arguments of updateSession: a new system message; an empty
\* title, which is ignored, with an empty system message, which removes it
UpdateInputs ==
  { [systemMessage |-> "Be exact"],
    [title |-> "", systemMessage |-> ""] }

\* the body of updateSession on the session object
ApplyUpdates(session, updates, time) ==
  LET withTitle ==
        IF "title" \in DOMAIN updates /\ Truthy(updates.title)
          THEN [session EXCEPT !.title = updates.title] ELSE session
      withSystem ==
        IF "systemMessage" \in DOMAIN updates /\ updates.systemMessage # Undefined
          THEN [withTitle EXCEPT
                  !.systemMessage = updates.systemMessage,
                  !.messages = SetSystemMessage(@, updates.systemMessage)]
          ELSE withTitle
      withMetadata ==
        IF "metadata" \in DOMAIN updates
          THEN [withSystem EXCEPT !.metadata = MergeMetadata(@, updates.metadata)]
          ELSE withSystem
  IN [withMetadata EXCEPT !.updatedAt = time]

\* getAllSessions: the ids of the sessions by updatedAt, latest first; the sort
\* is stable, so sessions of equal updatedAt stay in insertion order
RECURSIVE getAllSessions(_, _)
\* getAllSessions sorted by updatedAt, oldest first
RECURSIVE getAllSessions_OldestFirst(_, _)
getAllSessions_OldestFirst(objs, keys) ==
  IF keys = {} THEN <<>>
  ELSE LET first == CHOOSE id \in keys : \A other \in keys :
                      \/ objs[id].updatedAt < objs[other].updatedAt
                      \/ objs[id].updatedAt = objs[other].updatedAt /\ id <= other
       IN <<first>> \o getAllSessions_OldestFirst(objs, keys \ {first})

getAllSessions(objs, keys) ==
  IF keys = {} THEN <<>>
  ELSE LET first == CHOOSE id \in keys : \A other \in keys :
                      \/ objs[id].updatedAt > objs[other].updatedAt
                      \/ objs[id].updatedAt = objs[other].updatedAt /\ id <= other
       IN <<first>> \o getAllSessions(objs, keys \ {first})

NoThrow == [error |-> "none", sessionId |-> NoSession]

NotFound(sessionId) == [error |-> "Chat session not found", sessionId |-> sessionId]

NoCall == [op |-> "none", sid |-> NoSession, pc |-> "none", result |-> Undefined]

\* the session objects still reachable: those in the map and those a suspended
\* call holds
Reachable(objs, keys, cs) ==
  [id \in (DOMAIN objs) \cap
          (keys \cup {cs[c].sid : c \in {d \in Calls : cs[d].pc = "awaiting"}})
     |-> objs[id]]

\* what globalState keeps of a session: its JSON form, which has no key for an
\* undefined systemMessage
Serialize(session) ==
  IF session.systemMessage = Undefined
    THEN [key \in (DOMAIN session) \ {"systemMessage"} |-> session[key]]
    ELSE session

\* the session read back from globalState; a missing systemMessage reads as
\* undefined
Deserialize(saved) ==
  IF "systemMessage" \in DOMAIN saved THEN saved
  ELSE [key \in (DOMAIN saved) \cup {"systemMessage"} |->
          IF key = "systemMessage" THEN Undefined ELSE saved[key]]

\* saveSessions up to its first await: the map is handed to globalState
saveSessions ==
  /\ stored' = [id \in sessions' |-> Serialize(objects'[id])]
  /\ savePending' = TRUE
  /\ UNCHANGED storedActive

\* loadSessions that takes the first stored session as the active one, whatever
\* the stored pointer
loadSessions_IgnoresPointer(saved, savedActive) ==
  LET loaded == [id \in DOMAIN saved |-> Deserialize(saved[id])]
      keys == DOMAIN saved
  IN [sessions |-> loaded,
      activeSession |-> IF keys # {} THEN CHOOSE id \in keys : \A other \in keys : id <= other
                        ELSE NoSession]

\* loadSessions on a ChatController made over globalState: its session map and
\* its active pointer
loadSessions(saved, savedActive) ==
  LET loaded == [id \in DOMAIN saved |-> Deserialize(saved[id])]
      keys == DOMAIN saved
  IN [sessions |-> loaded,
      activeSession |->
        IF savedActive # NoSession /\ savedActive \in keys THEN savedActive
        ELSE IF keys # {} THEN getAllSessions(loaded, keys)[1]
        ELSE NoSession]

\* a continuation of saveSessions after its first await: the active pointer is
\* stored unless null; `last` tells whether no other save is pending after it
SaveContinue(last) ==
  /\ savePending
  /\ savePending' = ~last
  /\ storedActive' = IF activeSession # NoSession THEN activeSession ELSE storedActive
  /\ UNCHANGED <<objects, sessions, activeSession, stored, now, nextSessionId,
                 callCount, hcalls, thrown>>
  /\ UNCHANGED outsideStore

Fail_AfterActivating(sessionId) ==
  /\ thrown' = NotFound(sessionId)
  /\ activeSession' = sessionId
  /\ UNCHANGED <<objects, sessions, stored, storedActive, savePending,
                 now, nextSessionId, callCount, hcalls>>

\* `throw new Error("Chat session not found: ...")` before anything is changed
Fail(sessionId) ==
  /\ thrown' = NotFound(sessionId)
  /\ UNCHANGED <<objects, sessions, activeSession, stored, storedActive, savePending,
                 now, nextSessionId, callCount, hcalls>>

\* Date.now() advances
Tick ==
  /\ now < MaxClock
  /\ now' = now + 1
  /\ UNCHANGED <<objects, sessions, activeSession, stored, storedActive, savePending,
                 nextSessionId, callCount, hcalls, thrown>>
  /\ UNCHANGED outsideStore

\* the editor is closed and opened again: a new ChatController loads what
\* globalState holds
Restart ==
  /\ ~savePending
  /\ \A c \in Calls : hcalls[c].pc # "awaiting"
  /\ LET loaded == loadSessions(stored, storedActive) IN
       /\ objects' = loaded.sessions
       /\ sessions' = DOMAIN loaded.sessions
       /\ activeSession' = loaded.activeSession
  /\ thrown' = NoThrow
  /\ UNCHANGED <<stored, storedActive, savePending, now, nextSessionId, callCount, hcalls>>
  /\ UNCHANGED outsideStore

TitleInputs == {Undefined}

SystemMessageInputs == {Undefined, "Be brief"}

createSession(title, systemMessage) ==
  /\ LET newSession ==
           [title |-> IF Truthy(title) THEN title
                      ELSE "Chat Session " \o ToString(Cardinality(sessions) + 1),
            messages |-> IF Truthy(systemMessage)
                           THEN <<Message("system", systemMessage, 0)>> ELSE <<>>,
            createdAt |-> now,
            updatedAt |-> now,
            systemMessage |-> systemMessage,
            metadata |-> {}]
     IN objects' = [id \in (DOMAIN objects) \cup {nextSessionId} |->
                      IF id = nextSessionId THEN newSession ELSE objects[id]]
  /\ sessions' = sessions \cup {nextSessionId}
  /\ activeSession' = nextSessionId
  /\ nextSessionId' = nextSessionId + 1
  /\ thrown' = NoThrow
  /\ saveSessions
  /\ UNCHANGED <<now, callCount, hcalls>>
  /\ UNCHANGED outsideStore

setActiveSession(sessionId) ==
  /\ IF sessionId \notin sessions
       THEN Fail(sessionId)
       ELSE /\ activeSession' = sessionId
            /\ thrown' = NoThrow
            /\ UNCHANGED <<objects, sessions>>
            /\ saveSessions
            /\ UNCHANGED <<now, nextSessionId, callCount, hcalls>>
  /\ UNCHANGED outsideStore

updateSession(sessionId, updates) ==
  /\ IF sessionId \notin sessions
       THEN Fail(sessionId)
       ELSE /\ objects' = [objects EXCEPT
                             ![sessionId] = ApplyUpdates(@, updates, now)]
            /\ thrown' = NoThrow
            /\ UNCHANGED <<sessions, activeSession>>
            /\ saveSessions
            /\ UNCHANGED <<now, nextSessionId, callCount, hcalls>>
  /\ UNCHANGED outsideStore

deleteSession(sessionId) ==
  /\ IF sessionId \notin sessions
       THEN Fail(sessionId)
       ELSE /\ sessions' = sessions \ {sessionId}
            /\ objects' = Reachable(objects, sessions', hcalls)
            /\ activeSession' =
                 IF activeSession = sessionId
                   THEN LET remainingSessions == getAllSessions(objects, sessions') IN
                        IF Len(remainingSessions) > 0 THEN remainingSessions[1]
                        ELSE NoSession
                   ELSE activeSession
            /\ thrown' = NoThrow
            /\ saveSessions
            /\ UNCHANGED <<now, nextSessionId, callCount, hcalls>>
  /\ UNCHANGED outsideStore

\* clearSessionHistory that drops the system message too
clearSessionHistory_DropsSystemMessage(sessionId) ==
  /\ IF sessionId \notin sessions
       THEN Fail(sessionId)
       ELSE /\ objects' = [objects EXCEPT
                    ![sessionId].messages = <<>>,
                    ![sessionId].updatedAt = now]
            /\ thrown' = NoThrow
            /\ UNCHANGED <<sessions, activeSession>>
            /\ saveSessions
            /\ UNCHANGED <<now, nextSessionId, callCount, hcalls>>
  /\ UNCHANGED outsideStore

clearSessionHistory(sessionId) ==
  /\ IF sessionId \notin sessions
       THEN Fail(sessionId)
       ELSE /\ LET messages == objects[sessionId].messages
                   i == SystemMessageIndex(messages)
               IN objects' = [objects EXCEPT
                    ![sessionId].messages = IF i > 0 THEN <<messages[i]>> ELSE <<>>,
                    ![sessionId].updatedAt = now]
            /\ thrown' = NoThrow
            /\ UNCHANGED <<sessions, activeSession>>
            /\ saveSessions
            /\ UNCHANGED <<now, nextSessionId, callCount, hcalls>>
  /\ UNCHANGED outsideStore

\* the contents of user messages and code generation prompts
Contents == {"hello"}

\* addUserMessage that stamps the session with its creation time
AddUser_StampsCreationTime(sessionId, content, call) ==
  /\ objects' = [objects EXCEPT
       ![sessionId].messages = Push(@, Message("user", content, call)),
       ![sessionId].updatedAt = objects[sessionId].createdAt]
  /\ UNCHANGED <<sessions, activeSession>>
  /\ saveSessions

\* the body of addUserMessage on a session that is in the map
AddUser(sessionId, content, call) ==
  /\ objects' = [objects EXCEPT
       ![sessionId].messages = Push(@, Message("user", content, call)),
       ![sessionId].updatedAt = now]
  /\ UNCHANGED <<sessions, activeSession>>
  /\ saveSessions

addUserMessage(sessionId, content) ==
  /\ IF sessionId \notin sessions
       THEN Fail(sessionId)
       ELSE /\ Len(objects[sessionId].messages) < MaxMessages
            /\ AddUser(sessionId, content, 0)
            /\ thrown' = NoThrow
            /\ UNCHANGED <<now, nextSessionId, callCount, hcalls>>
  /\ UNCHANGED outsideStore

\* handleMessage / handleCodeGeneration up to the await of the dispatcher: the
\* user message is added and the session object is held across the await
HandleStart(op, sessionId, content) ==
  /\ IF sessionId \notin sessions
       THEN Fail(sessionId)
       ELSE /\ callCount < MaxCalls
            /\ callCount' = callCount + 1
            /\ AddUser(sessionId, content, callCount + 1)
            /\ hcalls' = [hcalls EXCEPT ![callCount + 1] =
                            [op |-> op, sid |-> sessionId, pc |-> "awaiting",
                             result |-> Undefined]]
            /\ thrown' = NoThrow
            /\ UNCHANGED <<now, nextSessionId>>
  /\ UNCHANGED outsideStore

handleMessage(sessionId, content) == HandleStart("handleMessage", sessionId, content)

handleCodeGeneration(sessionId, prompt) ==
  HandleStart("handleCodeGeneration", sessionId, prompt)

\* what processMessage resolves with; it never rejects
ChatResponses ==
  {ApiResponse("chat", "reply", "stop"),
   ChatErrorResponse("Chat API request failed: Authentication failed", FALSE)}

\* what generateCode resolves with; it never rejects
CodeResponses ==
  {ApiResponse("completion", "code", "stop"),
   ApiErrorResponse("completion", "Authentication failed")}

\* formattedResponse of handleCodeGeneration: the text in a code fence (written
\* ~~~ here); response.language is always set
FormatForChat(response) ==
  IF response.generatedText # ""
    THEN "~~~plaintext " \o response.generatedText \o " ~~~"
  ELSE response.generatedText

\* the completion that puts the session of the call back into the map
HandleFinish_PutsSessionBack(c, content, result) ==
  /\ hcalls[c].pc = "awaiting"
  /\ hcalls' = [hcalls EXCEPT ![c].pc = "resolved", ![c].result = result]
  /\ sessions' = sessions \cup {hcalls[c].sid}
  /\ objects' = Reachable(
       [objects EXCEPT
          ![hcalls[c].sid].messages = Push(@, Message("assistant", content, c)),
          ![hcalls[c].sid].updatedAt = now],
       sessions', hcalls')
  /\ saveSessions
  /\ UNCHANGED <<activeSession, now, nextSessionId, callCount, thrown>>
  /\ UNCHANGED outsideStore

\* the dispatcher resolved: the assistant message is pushed on the session
\* object the call holds and the call returns
HandleFinish(c, content, result) ==
  /\ hcalls[c].pc = "awaiting"
  /\ hcalls' = [hcalls EXCEPT ![c].pc = "resolved", ![c].result = result]
  /\ sessions' = sessions
  /\ objects' = Reachable(
       [objects EXCEPT
          ![hcalls[c].sid].messages = Push(@, Message("assistant", content, c)),
          ![hcalls[c].sid].updatedAt = now],
       sessions, hcalls')
  /\ saveSessions
  /\ UNCHANGED <<activeSession, now, nextSessionId, callCount, thrown>>
  /\ UNCHANGED outsideStore

\* handleMessage after `await this.chatService.processMessage(...)`: it returns
\* the assistant message
HandleMessageFinish(c, response) ==
  /\ hcalls[c].op = "handleMessage"
  /\ HandleFinish(c, response.generatedText, response.generatedText)

\* handleCodeGeneration after `await this.codeGenerator.generateCode(...)`: it
\* returns the response
HandleCodeGenerationFinish(c, response) ==
  /\ hcalls[c].op = "handleCodeGeneration"
  /\ HandleFinish(c, FormatForChat(response), response.generatedText)

InitLocal ==
  /\ inferenceCount = 0
  /\ activeInferences = 0
  /\ calls = [k \in Kinds |-> [s \in Stages |-> 0]]
  /\ lastResponse = NoResponse

InitLoader ==
  /\ isLoading = FALSE
  /\ currentModel = NULL
  /\ modelMetadata = NULL
  /\ resourcesAllocated = FALSE
  /\ config = FALSE
  /\ loadPc = "none"
  /\ loadOwner = NoOwner
  /\ extPc = "idle"

InitRetry ==
  /\ maxRetries = 0
  /\ attempt = 0
  /\ retryPc = "idle"
  /\ lastError = NoError
  /\ delayMs = 0
  /\ retryResult = [ok |-> FALSE, value |-> Undefined, attempts |-> 0,
                    message |-> Undefined]
  /\ fnCalls = 0
  /\ sleeps = 0
  /\ failures = <<>>
  /\ fnValue = Undefined

InitDispatch ==
  /\ dPc = "idle"
  /\ dOp = "generateCode"
  /\ dLocal = FALSE
  /\ dResponse = NoResponse
  /\ dFailure = "none"
  /\ connectorConfig = FALSE
  /\ uuids = 0
  /\ dRequestId = NoId
  /\ dResponseId = NoId
  /\ dOptions = [useLocalModel |-> FALSE]
  /\ dInvoked = NoneInvoked
  /\ dPost = "none"
  /\ dLanguage = Undefined

\* the ChatController constructed over an empty globalState
InitStore ==
  /\ objects = <<>>
  /\ sessions = {}
  /\ activeSession = NoSession
  /\ stored = <<>>
  /\ storedActive = NoSession
  /\ savePending = FALSE
  /\ now = 0
  /\ nextSessionId = 1
  /\ callCount = 0
  /\ hcalls = [c \in Calls |-> NoCall]
  /\ thrown = NoThrow

InitCaller == returned = <<>>

InitPost == post = [called |-> FALSE]

Init ==
  /\ InitLocal /\ InitLoader /\ InitRetry /\ InitDispatch /\ InitStore
  /\ InitCaller /\ InitPost

NextLocal ==
  \/ runInference
  \/ runChatInference
  \/ \E k \in Kinds : AfterEnsure(k)
  \/ \E k \in Kinds : AfterReject(k)
  \/ \E k \in Kinds : AfterConfig(k)
  \/ \E k \in Kinds : AfterTimer(k)
  \/ LoadPath
  \/ LoadMeta
  \/ LoadCheck
  \/ LoadAlloc
  \/ LoadCatch
  \/ \E withPath \in BOOLEAN : loadModel(withPath)
  \/ unloadModel
  \/ UnloadFinish

SpecLocal == Init /\ [][NextLocal]_vars

NextRetry ==
  \/ \E max \in 0..MaxRetriesInput : retry(max)
  \/ \E v \in Values : FnResolves(v)
  \/ \E error \in Errors, jitter \in Jitters : FnRejects(error, jitter)
  \/ DelayElapsed

SpecRetry == Init /\ [][NextRetry]_vars

\* one dispatch at a time; the local call and the retry loop it awaits run
\* with their own actions
NextDispatch ==
  \/ \E options \in GenerateOptions : uuids < MaxUuids /\ generateCode(options)
  \/ \E useLocalModel \in BOOLEAN : uuids < MaxUuids /\ processMessage(useLocalModel)
  \/ ConfigRead
  \/ ProcessAfterConfig
  \/ AfterInitialize
  \/ AfterRetry
  \/ AfterLocal
  \/ AfterPostProcess
  \/ \E v \in Values : FnResolves(v)
  \/ \E error \in ClientErrors : FnRejects(error, 0)
  \/ DelayElapsed
  \/ \E k \in Kinds : AfterEnsure(k)
  \/ \E k \in Kinds : AfterReject(k)
  \/ \E k \in Kinds : AfterConfig(k)
  \/ \E k \in Kinds : AfterTimer(k)
  \/ LoadPath
  \/ LoadMeta
  \/ LoadCheck
  \/ LoadAlloc
  \/ LoadCatch

SpecDispatch == Init /\ [][NextDispatch]_vars

\* the operations of the store under every interleaving of their awaits. The
\* clock stands still and the continuation of saveSessions has not run: they
\* change now, storedActive and savePending only, which no operation reads to
\* decide what it does to the map, the messages or the active pointer
NextStore ==
  \/ \E title \in TitleInputs, systemMessage \in SystemMessageInputs :
       nextSessionId <= MaxSessions /\ createSession(title, systemMessage)
  \/ \E sessionId \in SessionIds : setActiveSession(sessionId)
  \/ \E sessionId \in SessionIds, updates \in UpdateInputs :
       updateSession(sessionId, updates)
  \/ \E sessionId \in SessionIds : deleteSession(sessionId)
  \/ \E sessionId \in SessionIds : clearSessionHistory(sessionId)
  \/ \E sessionId \in SessionIds, content \in Contents :
       addUserMessage(sessionId, content)
  \/ \E sessionId \in SessionIds, content \in Contents :
       handleMessage(sessionId, content)
  \/ \E sessionId \in SessionIds, prompt \in Contents :
       handleCodeGeneration(sessionId, prompt)
  \/ \E c \in Calls, response \in ChatResponses : HandleMessageFinish(c, response)
  \/ \E c \in Calls, response \in CodeResponses :
       HandleCodeGenerationFinish(c, response)

SpecStore == Init /\ [][NextStore]_vars

\* the sessions of a store whose clock runs and whose saves complete
MaxSavedSessions == 3

SavedSessionIds == 1..MaxSavedSessions

\* the store with its clock, the continuations of its saves and restarts; the
\* operations that wait for the dispatcher are left to SpecStore
NextSaved ==
  \/ \E systemMessage \in SystemMessageInputs :
       nextSessionId <= MaxSavedSessions /\ createSession(Undefined, systemMessage)
  \/ \E sessionId \in SavedSessionIds : setActiveSession(sessionId)
  \/ \E sessionId \in SavedSessionIds : deleteSession(sessionId)
  \/ \E sessionId \in SavedSessionIds, content \in Contents :
       addUserMessage(sessionId, content)
  \/ \E sessionId \in SavedSessionIds : clearSessionHistory(sessionId)
  \/ \E sessionId \in SavedSessionIds, updates \in UpdateInputs :
       updateSession(sessionId, updates)
  \/ \E last \in BOOLEAN : SaveContinue(last)
  \/ Tick
  \/ Restart

SpecSaved == Init /\ [][NextSaved]_vars

\* ------------------------------------------------------------------------
\* Properties
\* ------------------------------------------------------------------------
\* C1: the number of admitted, not yet completed local inferences never exceeds
\* MAX_CONCURRENT_INFERENCES, under every interleaving of runInference and
\* runChatInference calls
C1_ActiveWithinLimit == activeInferences <= MAX_CONCURRENT_INFERENCES

\* the limit is reached with calls of both kinds in flight and a further call
\* was turned away
C1_Witness ==
  /\ activeInferences = MAX_CONCURRENT_INFERENCES
  /\ lastResponse.error = BUSY_MESSAGE
  /\ \E stage \in Stages : calls["completion"][stage] > 0
  /\ \E stage \in Stages : calls["chat"][stage] > 0

\* C2: activeInferences always equals the number of admitted calls still in
\* flight: every admitted call decrements it exactly once when it finishes,
\* with a success or with a failure, and a rejected call never decrements it
C2_ActiveEqualsInFlight == activeInferences = InFlight

\* a call whose model load failed has finished and none is in flight
C2_Witness ==
  /\ lastResponse = FailedResponse("completion", "model could not be loaded")
  /\ InFlight = 0
  /\ activeInferences = 0

RetryableTypes == {"network", "timeout", "server", "rate_limit"}

AllRetryable == \A i \in 1..Len(failures) : failures[i] \in RetryableTypes

\* C3: a failure classified authentication or bad_request is the last attempt:
\* retry raises at once, without a sleep; a failure classified network,
\* timeout, server or rate_limit made while fewer than maxRetries retries were
\* made is followed by a sleep and by a further call of the operation
C3_RetryOnlyWhenRetryable ==
  \A i \in 1..Len(failures) :
    /\ failures[i] \in {"authentication", "bad_request"} =>
         /\ i = Len(failures)
         /\ retryPc = "raised"
         /\ fnCalls = i
         /\ sleeps = i - 1
    /\ (failures[i] \in RetryableTypes /\ i <= maxRetries) =>
         /\ sleeps >= i
         /\ retryPc # "raised" \/ i < Len(failures)
         /\ fnCalls >= i + 1 \/ (retryPc = "sleeping" /\ i = Len(failures))

\* two retried failures, then a client error ends the call
C3_Witness ==
  /\ failures = <<"network", "rate_limit", "bad_request">>
  /\ maxRetries = 3
  /\ retryPc = "raised"

\* C4: the operation is invoked at most maxRetries + 1 times; when every
\* attempt failed with a retryable error retry raises after the
\* (maxRetries + 1)-th failure, having slept maxRetries times
C4_AtMostMaxRetriesPlusOne ==
  /\ fnCalls <= maxRetries + 1
  /\ sleeps <= maxRetries
  /\ (retryPc = "raised" /\ AllRetryable) =>
       /\ fnCalls = maxRetries + 1
       /\ Len(failures) = maxRetries + 1
       /\ sleeps = maxRetries

\* every attempt of a retry with maxRetries = 3 failed with a server error
C4_Witness ==
  /\ retryPc = "raised"
  /\ maxRetries = 3
  /\ failures = <<"server", "server", "server", "server">>

\* C5: when the operation fails k <= maxRetries times with retryable errors
\* and then succeeds, retry does not give up before, it returns that success
\* value, and it has invoked the operation k + 1 times and slept k times
C5_SuccessAfterRetries ==
  /\ retryPc = "returned" =>
       /\ retryResult.ok
       /\ retryResult.value = fnValue
       /\ fnCalls = Len(failures) + 1
       /\ sleeps = Len(failures)
  /\ retryPc = "raised" => ~(AllRetryable /\ Len(failures) <= maxRetries)

\* two server failures, then the success value after exactly 3 attempts
C5_Witness ==
  /\ retryPc = "returned"
  /\ failures = <<"server", "server">>
  /\ fnCalls = 3
  /\ sleeps = 2
  /\ retryResult.value = "response A"

\* C6: a dispatch that has resolved after a failure along the way (transport
\* error after the retries, configuration load failure, local inference
\* failure, post-processing failure) holds a response with finishReason = error
\* and a non-empty error string
C6_FailuresBecomeErrorResponses ==
  (dPc = "done" /\ dFailure # "none") =>
    /\ dResponse.finishReason = "error"
    /\ dResponse.error \notin {Undefined, ""}

FromHandleMessage(message) ==
  message.call # 0 /\ hcalls[message.call].op = "handleMessage"

\* C7: no message of another handleMessage call stands between the user message
\* of a handleMessage call and the assistant reply to it: a user message made by
\* handleMessage that is followed by a message of a handleMessage call is
\* followed by its own reply
C7_HandleMessageSerialized ==
  \A s \in DOMAIN objects :
    LET messages == objects[s].messages IN
    \A i \in 1..(Len(messages) - 1) :
      (/\ messages[i].role = "user"
       /\ FromHandleMessage(messages[i])
       /\ FromHandleMessage(messages[i + 1])) =>
        /\ messages[i + 1].role = "assistant"
        /\ messages[i + 1].call = messages[i].call

\* the contents of the assistant messages
ReplyContents ==
  {r.generatedText : r \in ChatResponses} \cup {FormatForChat(r) : r \in CodeResponses}

\* the call c returns in this step
Finishes(c) == hcalls[c].pc = "awaiting" /\ hcalls'[c].pc = "resolved"

\* this step puts `message` at the end of the messages of session s
AppendsTo(s, message) ==
  objects'[s].messages = Append(objects[s].messages, message)

\* C8: the step in which handleMessage / handleCodeGeneration returns its response
\* is the step that appends the assistant message to the session, and a session
\* in the map holds assistant messages of returned calls only
C8_ReplyAppendedWithResponse ==
  [][/\ \A c \in Calls :
          (Finishes(c) /\ hcalls[c].sid \in sessions) =>
            /\ hcalls'[c].result # Undefined
            /\ \E content \in ReplyContents :
                 AppendsTo(hcalls[c].sid, Message("assistant", content, c))
     /\ \A s \in sessions' : \A i \in 1..Len(objects'[s].messages) :
          objects'[s].messages[i].role = "assistant" =>
            hcalls'[objects'[s].messages[i].call].pc = "resolved"]_vars

\* a handleMessage call and a handleCodeGeneration call have returned and the
\* reply of the later one is the last message of its session
C8_Witness ==
  /\ hcalls[1].pc = "resolved" /\ hcalls[1].op = "handleMessage"
  /\ hcalls[2].pc = "resolved" /\ hcalls[2].op = "handleCodeGeneration"
  /\ hcalls[2].sid \in sessions
  /\ LET messages == objects[hcalls[2].sid].messages IN
       /\ Len(messages) >= 2
       /\ messages[Len(messages)] = Message("assistant", "~~~plaintext code ~~~", 2)

\* the step is clearSessionHistory or a system-message update on session s
Resets(s) ==
  \/ clearSessionHistory(s)
  \/ \E updates \in UpdateInputs : updateSession(s, updates)

\* the step is a successful append of the user message to session s, by
\* addUserMessage or by the head of handleMessage / handleCodeGeneration
AppendsUser(s, message) ==
  /\ s \in sessions
  /\ \/ message.call = 0 /\ addUserMessage(s, message.content)
     \/ /\ message.call # 0
        /\ callCount' = message.call
        /\ \/ handleMessage(s, message.content)
           \/ handleCodeGeneration(s, message.content)

UserMessages == {Message("user", content, c) : content \in Contents, c \in 0..MaxCalls}

\* C9: a successful append puts its message at the end of the list, and a step
\* that is neither clearSessionHistory nor a system-message update leaves the
\* list as it is or adds one message at its end; so N appends with no such
\* step between leave the previous list followed by the N messages in the
\* order of the appends
C9_AppendsInOrder ==
  [][\A s \in (DOMAIN objects) \cap (DOMAIN objects') :
       /\ \A message \in UserMessages :
            AppendsUser(s, message) => AppendsTo(s, message)
       /\ \A c \in Calls :
            (Finishes(c) /\ hcalls[c].sid = s) =>
              \E content \in ReplyContents :
                AppendsTo(s, Message("assistant", content, c))
       /\ \/ Resets(s)
          \/ objects'[s].messages = objects[s].messages
          \/ \E message \in UserMessages : AppendsTo(s, message)
          \/ \E content \in ReplyContents, c \in Calls :
               AppendsTo(s, Message("assistant", content, c))]_vars

\* a session holds a user message added by addUserMessage and then the user
\* message and the reply of a call, in that order
C9_Witness ==
  \E s \in sessions :
    /\ Len(objects[s].messages) = 3
    /\ objects[s].messages[1] = Message("user", "hello", 0)
    /\ objects[s].messages[2] = Message("user", "hello", 1)
    /\ objects[s].messages[3].role = "assistant"
    /\ objects[s].messages[3].call = 1

\* the step is a store operation given the session id
OperationOn(sessionId) ==
  \/ \E content \in Contents :
       \/ addUserMessage(sessionId, content)
       \/ handleMessage(sessionId, content)
       \/ handleCodeGeneration(sessionId, content)
  \/ \E updates \in UpdateInputs : updateSession(sessionId, updates)
  \/ deleteSession(sessionId)
  \/ clearSessionHistory(sessionId)
  \/ setActiveSession(sessionId)

\* C10: a store operation given a session id that is not in the map throws the
\* not-found error and leaves the map, the sessions with their messages and the
\* active pointer as they were
C10_UnknownSessionFails ==
  [][\A sessionId \in SessionIds :
       (sessionId \notin sessions /\ OperationOn(sessionId)) =>
         /\ thrown' = NotFound(sessionId)
         /\ UNCHANGED <<objects, sessions, activeSession>>]_vars

\* an operation failed on the id of a deleted session while another session,
\* with messages, is in the map and is the active one
C10_Witness ==
  /\ thrown.error = "Chat session not found"
  /\ thrown.sessionId < nextSessionId
  /\ thrown.sessionId \notin sessions
  /\ activeSession \in sessions
  /\ Len(objects[activeSession].messages) > 0

\* the number of messages with role system
SystemCount(messages) ==
  Cardinality({i \in 1..Len(messages) : messages[i].role = "system"})

\* the messages whose role is not system, in their order
RECURSIVE NonSystem(_)
NonSystem(messages) ==
  IF messages = <<>> THEN <<>>
  ELSE IF Head(messages).role = "system" THEN NonSystem(Tail(messages))
       ELSE <<Head(messages)>> \o NonSystem(Tail(messages))

\* C11: every session holds at most one message with role system; updateSession
\* with a non-empty systemMessage rewrites the content of the existing system
\* message where it stands, or puts one in front when there was none, and with
\* an empty systemMessage it leaves the session without a system message
C11_SingleSystemMessage ==
  [][/\ \A s \in DOMAIN objects' : SystemCount(objects'[s].messages) <= 1
     /\ \A s \in sessions : \A updates \in UpdateInputs :
          updateSession(s, updates) =>
            LET before == objects[s].messages
                after == objects'[s].messages
                text == updates.systemMessage
                i == SystemMessageIndex(before)
            IN /\ NonSystem(after) = NonSystem(before)
               /\ Truthy(text) =>
                    /\ SystemCount(after) = 1
                    /\ after[SystemMessageIndex(after)].content = text
                    /\ i > 0 => Len(after) = Len(before) /\ SystemMessageIndex(after) = i
                    /\ i = 0 => after = <<Message("system", text, 0)>> \o before
               /\ text = "" => SystemCount(after) = 0]_vars

\* a session holds the system message set by updateSession in front of a user
\* message and its reply, and another session holds nothing but such a message
C11_Witness ==
  /\ sessions = {1, 2}
  /\ Len(objects[1].messages) = 3
  /\ objects[1].messages[1] = Message("system", "Be exact", 0)
  /\ objects[1].messages[3].role = "assistant"
  /\ objects[2].messages = <<Message("system", "Be exact", 0)>>
  /\ objects[2].systemMessage = "Be exact"

\* C12: deleteSession on a session of the map removes that session and leaves
\* every other session as it was; when the session was the active one the active
\* pointer becomes a remaining session that no remaining session exceeds in
\* updatedAt, or null when none remains; otherwise the pointer stays
C12_DeleteMovesActivePointer ==
  [][\A sessionId \in SavedSessionIds :
       (sessionId \in sessions /\ deleteSession(sessionId)) =>
         /\ sessions' = sessions \ {sessionId}
         /\ \A s \in sessions' : objects'[s] = objects[s]
         /\ activeSession # sessionId => activeSession' = activeSession
         /\ activeSession = sessionId =>
              IF sessions' = {} THEN activeSession' = NoSession
              ELSE /\ activeSession' \in sessions'
                   /\ \A other \in sessions' :
                        objects[activeSession'].updatedAt >= objects[other].updatedAt]_vars

\* the first of three sessions is gone and the active pointer names the last
\* one, which was updated after the second one
C12_Witness ==
  /\ sessions = {2, 3}
  /\ activeSession = 3
  /\ storedActive = 1
  /\ objects[3].updatedAt > objects[2].updatedAt

\* C13: when no saveSessions is pending, loadSessions over what globalState
\* holds yields the session map and the active pointer of the store in memory;
\* so it is after the last session was deleted, when the stored pointer is stale
\* and the loaded pointer is null, and after saves that overlapped
C13_ReloadYieldsStore ==
  ~savePending =>
    loadSessions(stored, storedActive) =
      [sessions |-> [id \in sessions |-> objects[id]],
       activeSession |-> activeSession]

\* every session was deleted, the saves have completed and globalState still
\* names the session that was active last
C13_Witness ==
  /\ ~savePending
  /\ sessions = {}
  /\ activeSession = NoSession
  /\ nextSessionId > MaxSavedSessions
  /\ storedActive = 2

\* p is a prefix of q
IsPrefix(p, q) == Len(p) <= Len(q) /\ SubSeq(q, 1, Len(p)) = p

\* C14: in a step that is not clearSessionHistory on the session, the messages
\* of a session whose role is not system, as they were before the step, are a
\* prefix of those after it
C14_NonSystemMessagesKept ==
  [][\A s \in (DOMAIN objects) \cap (DOMAIN objects') :
       \/ s \in sessions /\ clearSessionHistory(s)
       \/ IsPrefix(NonSystem(objects[s].messages), NonSystem(objects'[s].messages))]_vars

\* the system message of a session was taken away by updateSession and the
\* session holds the user message and the reply of a call
C14_Witness ==
  \E s \in sessions :
    /\ objects[s].systemMessage = ""
    /\ Len(objects[s].messages) = 2
    /\ objects[s].messages[1] = Message("user", "hello", 1)
    /\ objects[s].messages[2].role = "assistant"

\* this step calls ResourceManager.releaseResources: the catch block of
\* loadModel is entered, or unloadModel runs with a model loaded
CallsRelease ==
  \/ loadPc # "catch" /\ loadPc' = "catch"
  \/ extPc = "idle" /\ extPc' = "unloading"

\* C15: releaseResources called while no resources are allocated leaves the
\* allocation flag clear and the caller goes on; releasing twice gives what
\* releasing once gives; activeInferences is never negative
C15_ReleaseIdempotent ==
  [][/\ (CallsRelease /\ ~resourcesAllocated) => ~resourcesAllocated'
     /\ CallsRelease => resourcesAllocated' = ReleaseResources(resourcesAllocated')
     /\ activeInferences' >= 0]_vars

\* the catch block of a load started by a chat inference has called
\* releaseResources, nothing is allocated, and every earlier call has completed
C15_Witness ==
  /\ loadPc = "catch"
  /\ loadOwner = "chat"
  /\ ~resourcesAllocated
  /\ activeInferences = 1
  /\ inferenceCount > 1

\* no call has completed and none was turned away so far
NoneSettled == lastResponse = NoResponse

\* this step is the arrival of a runInference / runChatInference call
Arrives == inferenceCount' = inferenceCount + 1

\* C16: while no call has completed, the first MAX_CONCURRENT_INFERENCES calls
\* that arrive are all admitted, and the call that arrives next is turned away
\* with the busy response while the admitted ones stay in flight
C16_OneRejectedBeyondLimit ==
  [][(NoneSettled /\ Arrives) =>
       IF inferenceCount < MAX_CONCURRENT_INFERENCES
         THEN /\ activeInferences' = inferenceCount'
              /\ InFlight' = inferenceCount'
              /\ NoneSettled'
         ELSE /\ inferenceCount = MAX_CONCURRENT_INFERENCES
              /\ \E k \in Kinds : lastResponse' = BusyResponse(k)
              /\ activeInferences' = MAX_CONCURRENT_INFERENCES
              /\ calls' = calls]_vars

\* MAX_CONCURRENT_INFERENCES + 1 calls have arrived, none has completed:
\* MAX_CONCURRENT_INFERENCES are in flight and the chat call was turned away
C16_Witness ==
  /\ inferenceCount = MAX_CONCURRENT_INFERENCES + 1
  /\ InFlight = MAX_CONCURRENT_INFERENCES
  /\ activeInferences = MAX_CONCURRENT_INFERENCES
  /\ lastResponse = BusyResponse("chat")

\* C17: a call that arrives while activeInferences = MAX_CONCURRENT_INFERENCES
\* is answered in the step of its arrival with the busy response, whose
\* finishReason is error; the step leaves activeInferences, the calls in flight
\* and the model loader as they were
C17_BusyAnsweredAtOnce ==
  [][(Arrives /\ activeInferences = MAX_CONCURRENT_INFERENCES) =>
       /\ \E k \in Kinds : lastResponse' = BusyResponse(k)
       /\ lastResponse'.finishReason = "error"
       /\ lastResponse'.error = BUSY_MESSAGE
       /\ lastResponse'.generatedText = ""
       /\ activeInferences' = activeInferences
       /\ calls' = calls
       /\ UNCHANGED loaderVars]_vars

\* a completion call was turned away while no model is loaded and no load is
\* in progress: it did not start one
C17_Witness ==
  /\ lastResponse = BusyResponse("completion")
  /\ activeInferences = MAX_CONCURRENT_INFERENCES
  /\ currentModel = NULL
  /\ ~isLoading
  /\ loadPc = "none"

\* C18: the response a dispatch resolves with, an error response included,
\* carries the requestId of the request that dispatch made
C18_ResponseCarriesRequestId ==
  dPc = "done" => (dRequestId # NoId /\ dResponseId = dRequestId)

\* C19: a generateCode call that states no preference between the backends
\* uses the local model when a model from the configured path is available
C19_AutoPrefersLocalModel ==
  ( /\ dPc = "done"
    /\ dOp = "generateCode"
    /\ "useLocalModel" \notin DOMAIN dOptions
    /\ currentModel # NULL )
  => dInvoked = [local |-> 1, api |-> 0]

\* the backend the options of a generateCode call ask for
Requested(options) ==
  IF "useLocalModel" \in DOMAIN options /\ options.useLocalModel
    THEN [local |-> 1, api |-> 0]
    ELSE [local |-> 0, api |-> 1]

C21_LocalFailureFallsBackToApi ==
  (dPc = "done" /\ dLocal /\ dFailure = "local") => dInvoked.api >= 1

\* the type and the retryable flag categorizeError gave the last failure
Verdict(error) ==
  [type |-> categorizeError(error).type, retryable |-> categorizeError(error).retryable]

\* an HTTP error whose response was received and that timed out or was aborted
TimedOutResponse(error) ==
  error.isAxios /\ error.hasResponse
  /\ (error.status = 408 \/ error.code = "ECONNABORTED")

\* the table of the classification without a row for timeouts
TableAsStated(error) ==
  IF ~error.isAxios THEN [type |-> "unknown", retryable |-> FALSE]
  ELSE IF ~error.hasResponse THEN [type |-> "network", retryable |-> TRUE]
  ELSE IF error.status = 429 THEN [type |-> "rate_limit", retryable |-> TRUE]
  ELSE IF error.status \in {401, 403} THEN [type |-> "authentication", retryable |-> FALSE]
  ELSE IF error.status \in 400..499 THEN [type |-> "bad_request", retryable |-> FALSE]
  ELSE IF error.status \in 500..599 THEN [type |-> "server", retryable |-> TRUE]
  ELSE [type |-> "unknown", retryable |-> FALSE]

\* C22 as stated: every failure retry classified got the verdict of the table:
\* no response network, 429 rate_limit, 401 and 403 authentication, any other
\* 4xx bad_request, 5xx server, everything else unknown
C22_TableAsStated ==
  lastError # NoError =>
    /\ Verdict(lastError) = TableAsStated(lastError)
    /\ failures[Len(failures)] = TableAsStated(lastError).type

\* C22: every failure retry classified got the verdict of the table, except
\* that a received response with status 408 or transport code ECONNABORTED
\* is classified timeout, retryable, whatever its status
C22_ClassificationTable ==
  lastError # NoError =>
    /\ Verdict(lastError) =
         IF TimedOutResponse(lastError) THEN [type |-> "timeout", retryable |-> TRUE]
         ELSE TableAsStated(lastError)
    /\ failures[Len(failures)] = Verdict(lastError).type

C22_Witness ==
  /\ retryPc = "raised"
  /\ lastError.isAxios /\ lastError.hasResponse
  /\ lastError.status = 404 /\ lastError.code = "ERR_BAD_RESPONSE"
  /\ failures = <<"server", "bad_request">>
  /\ fnCalls = 2

\* C23: every failure that is a timed-out or aborted call (status 408 or
\* transport code ECONNABORTED), with or without a response, was classified
\* timeout, retryable
C23_TimeoutsClassifiedTimeout ==
  ( /\ lastError # NoError
    /\ lastError.isAxios
    /\ (lastError.status = 408 \/ lastError.code = "ECONNABORTED") )
  => /\ failures[Len(failures)] = "timeout"
     /\ categorizeError(lastError).retryable

\* C24: for every attempt made so far and every jitter the backoff lies in
\* [BASE_DELAY, MAX_DELAY], the delay of a sleep that no Retry-After header
\* decided is such a backoff, and the backoff without jitter grows strictly
\* from one attempt to the next until it is MAX_DELAY
C24_BackoffWithinBounds ==
  /\ \A n \in 0..attempt :
       /\ \A jitter \in Jitters :
            calculateBackoff(n, jitter) \in BASE_DELAY..MAX_DELAY
       /\ calculateBackoff(n, 0) = Min(MAX_DELAY, BASE_DELAY * Pow2(n))
       /\ \/ calculateBackoff(n, 0) < calculateBackoff(n + 1, 0)
          \/ calculateBackoff(n, 0) = MAX_DELAY
  /\ (retryPc = "sleeping" /\ ~HasRetryAfter(lastError)) =>
       /\ delayMs \in BASE_DELAY..MAX_DELAY
       /\ \E jitter \in Jitters : delayMs = calculateBackoff(attempt, jitter)

C24_Witness ==
  /\ retryPc = "sleeping"
  /\ lastError.retryAfter = Undefined
  /\ attempt = 4
  /\ delayMs = 7000
  /\ sleeps = 5

\* the failure retry sleeps after is a rate-limit response with a Retry-After
\* header
RateLimitedWithDelay(error) ==
  /\ categorizeError(error).type = "rate_limit"
  /\ error.isAxios /\ error.hasResponse
  /\ HasRetryAfter(error)

\* C25: while retry sleeps, the delay is the Retry-After value in milliseconds
\* when the failure was a rate-limit response carrying one, and a computed
\* backoff of the current attempt after every other failure
C25_RetryAfterOverridesBackoff ==
  retryPc = "sleeping" =>
    IF RateLimitedWithDelay(lastError)
      THEN delayMs = ParseInt(lastError.retryAfter) * 1000
      ELSE \E jitter \in Jitters : delayMs = calculateBackoff(attempt, jitter)

C25_Witness ==
  /\ retryPc = "sleeping"
  /\ lastError.status = 429
  /\ lastError.retryAfter = "86400"
  /\ delayMs = 86400000
  /\ attempt = 1
  /\ failures = <<"server", "rate_limit">>

\* C26: retry never sleeps longer than one hour, whatever Retry-After value
\* the server sent
C26_ServerDelayBounded ==
  retryPc = "sleeping" => delayMs <= 3600 * 1000

\* C27: the error retry raised carries the classification message of the last
\* failure and the number of times the operation was invoked: 1 when the first
\* failure was not retryable, maxRetries + 1 when the retries were exhausted
C27_RaisedWithAttemptsMade ==
  retryPc = "raised" =>
    /\ retryResult.message = categorizeError(lastError).message
    /\ retryResult.attempts = fnCalls
    /\ (Len(failures) = 1 /\ ~categorizeError(lastError).retryable) =>
         retryResult.attempts = 1

\* the store with its clock: the operations that stamp a session, while time
\* passes between them and while the dispatcher is awaited
NextTimed ==
  \/ \E systemMessage \in SystemMessageInputs :
       nextSessionId <= MaxSessions /\ createSession(Undefined, systemMessage)
  \/ \E sessionId \in SessionIds, updates \in UpdateInputs :
       updateSession(sessionId, updates)
  \/ \E sessionId \in SessionIds : clearSessionHistory(sessionId)
  \/ \E sessionId \in SessionIds, content \in Contents :
       addUserMessage(sessionId, content)
  \/ \E sessionId \in SessionIds, content \in Contents :
       handleMessage(sessionId, content)
  \/ \E sessionId \in SessionIds, prompt \in Contents :
       handleCodeGeneration(sessionId, prompt)
  \/ \E c \in Calls, response \in ChatResponses : HandleMessageFinish(c, response)
  \/ \E c \in Calls, response \in CodeResponses :
       HandleCodeGenerationFinish(c, response)
  \/ Tick

SpecTimed == Init /\ [][NextTimed]_vars

\* C28: no step lowers the updatedAt of a session, and the updatedAt of every
\* session is at least its createdAt; the clock of the model never goes back
C28_UpdatedAtNeverDecreases ==
  [][ /\ now' >= now
      /\ \A id \in sessions' :
           /\ objects'[id].updatedAt >= objects'[id].createdAt
           /\ id \in sessions => objects'[id].updatedAt >= objects[id].updatedAt ]_vars

C28_Witness ==
  /\ now = 1
  /\ 1 \in sessions /\ 2 \in sessions
  /\ objects[1].createdAt = 0 /\ objects[1].updatedAt = 1
  /\ objects[2].createdAt = 1 /\ objects[2].updatedAt = 1
  /\ hcalls[1].pc = "resolved" /\ hcalls[1].op = "handleMessage" /\ hcalls[1].sid = 1
  /\ Len(objects[1].messages) >= 2
  /\ objects[1].messages[Len(objects[1].messages)].role = "assistant"

\* ------------------------------------------------------------------------
\* The getters of ChatController and a caller that keeps what they return
\* ------------------------------------------------------------------------
\* a session object is named by its key in objects; a getter that returns the
\* object of the map returns that name
\* `this.sessions.get(sessionId) || null`
getSession(keys, sessionId) == IF sessionId \in keys THEN sessionId ELSE NoSession

getActiveSession(keys, active) ==
  IF active = NoSession THEN NoSession ELSE getSession(keys, active)

\* what a caller holds after a getter returned a session or null
Holding(session) == IF session = NoSession THEN <<>> ELSE <<session>>

ReadSession(sessionId) ==
  /\ returned' = Holding(getSession(sessions, sessionId))
  /\ UNCHANGED <<storeVars, localVars, loaderVars, retryVars, dispatchVars, postVars>>

ReadActiveSession ==
  /\ returned' = Holding(getActiveSession(sessions, activeSession))
  /\ UNCHANGED <<storeVars, localVars, loaderVars, retryVars, dispatchVars, postVars>>

\* the array is new, its elements are the objects of the map
ReadAllSessions ==
  /\ returned' = getAllSessions(objects, sessions)
  /\ UNCHANGED <<storeVars, localVars, loaderVars, retryVars, dispatchVars, postVars>>

\* the caller pushes a message onto the list of a session it was given
CallerPushes(i) ==
  /\ i \in 1..Len(returned)
  /\ returned[i] \in sessions
  /\ Len(objects[returned[i]].messages) <= MaxMessages
  /\ objects' = [objects EXCEPT
       ![returned[i]].messages = Push(@, Message("user", "written by the caller", 0))]
  /\ UNCHANGED <<sessions, activeSession, stored, storedActive, savePending, now,
                 nextSessionId, callCount, hcalls, thrown, returned>>
  /\ UNCHANGED <<localVars, loaderVars, retryVars, dispatchVars, postVars>>

\* the operations of the store a caller can use between two reads
StoreOperations ==
  \/ \E systemMessage \in SystemMessageInputs :
       nextSessionId <= MaxSessions /\ createSession(Undefined, systemMessage)
  \/ \E sessionId \in SessionIds : setActiveSession(sessionId)
  \/ \E sessionId \in SessionIds : deleteSession(sessionId)
  \/ \E sessionId \in SessionIds : clearSessionHistory(sessionId)
  \/ \E sessionId \in SessionIds, content \in Contents :
       addUserMessage(sessionId, content)

NextReads ==
  \/ StoreOperations
  \/ \E sessionId \in SessionIds : ReadSession(sessionId)
  \/ ReadActiveSession
  \/ ReadAllSessions
  \/ \E i \in SessionIds : CallerPushes(i)

SpecReads == Init /\ [][NextReads]_vars

\* C29: the sessions the store holds change only in a step of one of the
\* store's operations, whatever a caller does with the sessions a getter
\* returned
C29_StoreChangesOnlyThroughOperations ==
  [][ (objects' # objects \/ sessions' # sessions \/ activeSession' # activeSession)
        => StoreOperations ]_vars

\* C30: a clearSessionHistory step on a session of the store leaves it with
\* exactly its system message when it had one and with no message otherwise,
\* and changes no other session, not the set of sessions and not the active
\* pointer
C30_ClearKeepsOnlySystemMessage ==
  [][\A s \in sessions :
       clearSessionHistory(s) =>
         LET before == objects[s].messages
             i == SystemMessageIndex(before)
         IN /\ objects'[s].messages = IF i > 0 THEN <<before[i]>> ELSE <<>>
            /\ SystemCount(before) = 0 => objects'[s].messages = <<>>
            /\ SystemCount(before) > 0 =>
                 /\ Len(objects'[s].messages) = 1
                 /\ objects'[s].messages[1].role = "system"
                 /\ objects'[s].messages[1].content = objects[s].systemMessage
            /\ \A other \in sessions \ {s} : objects'[other] = objects[other]
            /\ sessions' = sessions
            /\ activeSession' = activeSession]_vars

C30_Witness ==
  /\ sessions = {1, 2}
  /\ activeSession = 2
  /\ hcalls[1].pc = "resolved" /\ hcalls[1].op = "handleMessage" /\ hcalls[1].sid = 1
  /\ objects[1].messages = <<Message("system", "Be brief", 0)>>
  /\ Len(objects[2].messages) >= 1
  /\ objects[2].messages[Len(objects[2].messages)].role = "assistant"

\* ------------------------------------------------------------------------
\* updateSession on the title and the metadata
\* ------------------------------------------------------------------------
\* `updates` arguments that name one field each: a title, an empty title,
\* metadata on sets of <<key, value>>, a system message
UpdateFieldInputs ==
  { [title |-> "Renamed"],
    [title |-> ""],
    [metadata |-> {<<"topic", "sql">>}],
    [metadata |-> {<<"topic", "css">>}],
    [metadata |-> {<<"pinned", "yes">>}],
    [systemMessage |-> "Be exact"] }

NextUpdate ==
  \/ \E systemMessage \in SystemMessageInputs :
       nextSessionId <= MaxSessions /\ createSession(Undefined, systemMessage)
  \/ \E sessionId \in SessionIds, updates \in UpdateFieldInputs :
       updateSession(sessionId, updates)

SpecUpdate == Init /\ [][NextUpdate]_vars

\* the fields of a session that `updates` does not name are left as they were
UnnamedFieldsKept(before, after, updates) ==
  /\ "title" \notin DOMAIN updates => after.title = before.title
  /\ "metadata" \notin DOMAIN updates => after.metadata = before.metadata
  /\ "systemMessage" \notin DOMAIN updates =>
       /\ after.systemMessage = before.systemMessage
       /\ after.messages = before.messages
  /\ after.createdAt = before.createdAt

\* C31 as stated: an updateSession step makes a supplied title the title and
\* a supplied metadata object exactly the metadata, and leaves the fields
\* that are not supplied unchanged
C31_TitleAndMetadataOverwritten ==
  [][\A s \in sessions : \A updates \in UpdateFieldInputs :
       updateSession(s, updates) =>
         /\ "title" \in DOMAIN updates => objects'[s].title = updates.title
         /\ "metadata" \in DOMAIN updates => objects'[s].metadata = updates.metadata
         /\ UnnamedFieldsKept(objects[s], objects'[s], updates)]_vars

\* C31: an updateSession step makes a supplied title that is not empty the
\* title and ignores an empty one; it merges a supplied metadata object into
\* the metadata, the supplied keys replacing the old values and the other keys
\* staying; the fields that are not supplied are unchanged
C31_TitleSetMetadataMerged ==
  [][\A s \in sessions : \A updates \in UpdateFieldInputs :
       updateSession(s, updates) =>
         /\ "title" \in DOMAIN updates =>
              objects'[s].title = IF updates.title = "" THEN objects[s].title
                                  ELSE updates.title
         /\ "metadata" \in DOMAIN updates =>
              /\ updates.metadata \subseteq objects'[s].metadata
              /\ \A p \in objects[s].metadata :
                   \/ p \in objects'[s].metadata
                   \/ \E q \in updates.metadata : q[1] = p[1]
              /\ \A p \in objects'[s].metadata, q \in objects'[s].metadata :
                   p[1] = q[1] => p = q
              /\ objects'[s].metadata \subseteq objects[s].metadata \cup updates.metadata
         /\ UnnamedFieldsKept(objects[s], objects'[s], updates)]_vars

C31_Witness ==
  /\ 1 \in sessions
  /\ objects[1].title = "Renamed"
  /\ objects[1].metadata = {<<"topic", "css">>, <<"pinned", "yes">>}

ProcessingOptionSets ==
  [formatCode : BOOLEAN, validateCode : BOOLEAN, checkSecurity : BOOLEAN]

\* processResponse that hands back the original response when the code fails
\* validation
processResponseWith_WithholdsInvalid(response, options, outcome, valid, issues) ==
  LET checked == /\ response.error \in {Undefined, ""}
                 /\ response.generatedText # ""
                 /\ outcome \in {"formatted", "formatFails"}
  IN [response |->
        IF checked /\ options.validateCode /\ ~valid THEN response
        ELSE processResponse(response,
                             IF options.formatCode THEN outcome ELSE "formatFails"),
      warnings |->
        (IF checked /\ options.validateCode /\ ~valid
           THEN {"Code validation failed"} ELSE {})
        \cup (IF checked /\ options.checkSecurity /\ issues # <<>>
                THEN {"Security issues found"} ELSE {})]

\* processResponse with its options: the code is formatted unless formatCode
\* is false; validateCode and checkSecurity run on the code that was extracted
\* and formatted without an exception, and what they find goes to Logger.warn;
\* `valid` and `issues` are what validateCode and checkSecurityIssues return
processResponseWith(response, options, outcome, valid, issues) ==
  LET checked == /\ response.error \in {Undefined, ""}
                 /\ response.generatedText # ""
                 /\ outcome \in {"formatted", "formatFails"}
  IN [response |->
        processResponse(response, IF options.formatCode THEN outcome ELSE "formatFails"),
      warnings |->
        (IF checked /\ options.validateCode /\ ~valid
           THEN {"Code validation failed"} ELSE {})
        \cup (IF checked /\ options.checkSecurity /\ issues # <<>>
                THEN {"Security issues found"} ELSE {})]

\* one call of processResponse
PostProcess(response, options, outcome, valid, issues) ==
  /\ post' = [called |-> TRUE, response |-> response, options |-> options,
              outcome |-> outcome, valid |-> valid, issues |-> issues,
              result |-> processResponseWith(response, options, outcome, valid, issues)]
  /\ UNCHANGED <<localVars, loaderVars, retryVars, dispatchVars, storeVars, callerVars>>

NextPost ==
  \E response \in CodeResponses \cup {ApiResponse("completion", "", "stop")},
     options \in ProcessingOptionSets,
     outcome \in PostOutcomes,
     valid \in BOOLEAN,
     issues \in {<<>>, <<"Use of eval()">>} :
       PostProcess(response, options, outcome, valid, issues)

SpecPost == Init /\ [][NextPost]_vars

\* the options with validation and security checking switched off
ChecksOff(options) ==
  [options EXCEPT !.validateCode = FALSE, !.checkSecurity = FALSE]

C34_SystemMessageLeads ==
  \A s \in sessions :
    \A i \in 1..Len(objects[s].messages) :
      objects[s].messages[i].role = "system" =>
        /\ i = 1
        /\ objects[s].messages[i].content = objects[s].systemMessage

C34_Witness ==
  /\ 1 \in sessions
  /\ Len(objects[1].messages) >= 3
  /\ objects[1].messages[1] = Message("system", "Be exact", 0)
  /\ objects[1].messages[2].role = "user"
  /\ objects[1].systemMessage = "Be exact"
  /\ 2 \in sessions
  /\ objects[2].messages = <<Message("system", "Be brief", 0)>>

\* C35: while a handleMessage or handleCodeGeneration call awaits its response
\* on a session that was deleted, and in the step in which it completes, the
\* session is not in the session map, the active pointer does not name it and
\* the saved session collection does not contain it
C35_DeletedSessionStaysDeleted ==
  [][\A c \in Calls :
       (hcalls[c].pc = "awaiting" /\ hcalls[c].sid \notin sessions) =>
         /\ hcalls[c].sid \notin sessions'
         /\ activeSession' # hcalls[c].sid
         /\ hcalls[c].sid \notin DOMAIN stored']_vars

C35_Witness ==
  /\ hcalls[1].op = "handleMessage" /\ hcalls[1].pc = "resolved" /\ hcalls[1].sid = 1
  /\ hcalls[2].op = "handleMessage" /\ hcalls[2].pc = "awaiting" /\ hcalls[2].sid = 1
  /\ sessions = {2}
  /\ activeSession = 2
  /\ DOMAIN stored = {2}
  /\ 1 \in DOMAIN objects
  /\ objects[1].messages[Len(objects[1].messages)] = Message("assistant", "reply", 1)

\* C36: the active pointer is unset exactly when the session map is empty, and
\* otherwise names a session of the map, after any sequence of loadSessions,
\* createSession, setActiveSession and deleteSession
C36_ActivePointerMatchesMap ==
  /\ (activeSession = NoSession) <=> (sessions = {})
  /\ activeSession # NoSession => activeSession \in sessions

\* every session was deleted, the active one last, while storage still holds the
\* pointer of an earlier save
C36_Witness ==
  /\ sessions = {}
  /\ activeSession = NoSession
  /\ nextSessionId > 2
  /\ storedActive # NoSession
  /\ thrown = NoThrow

\* C37: handleMessage on a session of the map does not throw and pushes the
\* user message; when the awaited processMessage resolves, with a reply or with
\* the apology text of a failure, the call resolves with one assistant message
\* that it pushes on the session it holds, and nothing else is appended; an
\* operation only throws for a session that is not in the map
C37_NeverRejectsAppendsTwo ==
  [][/\ thrown' # NoThrow => thrown'.sessionId \notin sessions'
     /\ \A c \in Calls :
          /\ (hcalls[c].op = "none" /\ hcalls'[c].op = "handleMessage") =>
               /\ thrown' = NoThrow
               /\ hcalls'[c].sid \in sessions
               /\ hcalls'[c].pc = "awaiting"
               /\ \E content \in Contents :
                    objects'[hcalls'[c].sid].messages =
                      objects[hcalls'[c].sid].messages \o <<Message("user", content, c)>>
          /\ (hcalls[c].op = "handleMessage" /\ hcalls[c].pc = "awaiting" /\ hcalls'[c] # hcalls[c]) =>
               /\ hcalls'[c].pc = "resolved"
               /\ hcalls'[c].result \in {response.generatedText : response \in ChatResponses}
               /\ hcalls[c].sid \in DOMAIN objects' =>
                    objects'[hcalls[c].sid].messages =
                      objects[hcalls[c].sid].messages \o
                        <<Message("assistant", hcalls'[c].result, c)>>]_vars

\* a call whose model call failed resolved with the apology, pushed right
\* after its user message
C37_Witness ==
  /\ hcalls[1].op = "handleMessage" /\ hcalls[1].pc = "resolved" /\ hcalls[1].sid = 1
  /\ 1 \in sessions
  /\ thrown = NoThrow
  /\ objects[1].messages =
       << Message("user", "hello", 1),
          Message("assistant",
                  ChatErrorResponse("Chat API request failed: Authentication failed",
                                    FALSE).generatedText, 1) >>

\* the loadModel calls that passed the isLoading check and have not settled
LoadsInProgress(cs, ext) ==
  cs["completion"]["loading"] + cs["chat"]["loading"] + (IF ext = "loading" THEN 1 ELSE 0)

\* the loadModel calls that were rejected by the isLoading check
LoadsRejected(cs) == cs["completion"]["inProgress"] + cs["chat"]["inProgress"]

\* C38: at most one loadModel call is in progress and isLoading is set exactly
\* while one is; a loadModel call made meanwhile is rejected with 'Model loading
\* already in progress' and leaves currentModel, modelMetadata, the resource
\* allocation and isLoading as they were; when the call in progress settles,
\* installed or failed, isLoading is false
C38_OneLoadAtATime ==
  [][/\ LoadsInProgress(calls', extPc') <= 1
     /\ isLoading' <=> (LoadsInProgress(calls', extPc') = 1)
     /\ LoadsRejected(calls') > LoadsRejected(calls) =>
          /\ isLoading /\ isLoading'
          /\ UNCHANGED <<currentModel, modelMetadata, resourcesAllocated, loadPc, loadOwner>>
     /\ \A k \in Kinds :
          calls'[k]["inProgress"] < calls[k]["inProgress"] =>
            lastResponse' = FailedResponse(k, "Model loading already in progress")
     /\ LoadsInProgress(calls', extPc') < LoadsInProgress(calls, extPc) =>
          /\ ~isLoading'
          /\ loadPc \in {"alloc", "catch"}]_vars

\* a call was rejected while a load was in progress, and that load has failed:
\* the flag is clear and no model is installed
C38_Witness ==
  /\ lastResponse = FailedResponse("chat", "Model loading already in progress")
  /\ calls["completion"]["loadFailed"] = 1
  /\ ~isLoading
  /\ loadPc = "none"
  /\ currentModel = NULL
  /\ ~resourcesAllocated

\* C39: of the admitted inferences that find no model loaded at most one runs
\* loadModel; a call that finds a load in progress is rejected at once, and it
\* completes with a Response whose finishReason is error and gives its slot
\* back without passing through any other await, whether or not the load has
\* finished
C39_OthersFailWithoutWaiting ==
  [][/\ calls'["completion"]["loading"] + calls'["chat"]["loading"] <= 1
     /\ \A k \in Kinds :
          /\ calls'[k]["inProgress"] > calls[k]["inProgress"] =>
               /\ currentModel = NULL /\ isLoading
               /\ activeInferences' = activeInferences + 1
               /\ calls'[k]["loading"] = calls[k]["loading"]
          /\ calls'[k]["inProgress"] < calls[k]["inProgress"] =>
               /\ lastResponse'.finishReason = "error"
               /\ lastResponse'.generatedText = ""
               /\ activeInferences' = activeInferences - 1
               /\ calls' = Take(calls, k, "inProgress")
               /\ UNCHANGED loaderVars]_vars

\* two calls were admitted with no model loaded: the first still runs the load,
\* the second has already completed with the error and given back its slot
C39_Witness ==
  /\ inferenceCount = 2
  /\ calls["completion"]["loading"] = 1
  /\ isLoading /\ currentModel = NULL
  /\ lastResponse = FailedResponse("chat", "Model loading already in progress")
  /\ activeInferences = 1

\* C40: whenever no loadModel and no unloadModel call is in progress, resources
\* are allocated if and only if a model is loaded; the loads are those of the
\* inferences and those of a caller that makes its loadModel and unloadModel
\* calls one after the other, and they succeed, fail or are rejected
C40_AllocatedIffLoaded ==
  (~isLoading /\ loadPc = "none" /\ extPc = "idle") =>
    (resourcesAllocated <=> currentModel # NULL)

\* a model was loaded and served an inference, and then it was unloaded or a
\* reload failed: no call is in progress, no model and no allocation are left
C40_Witness ==
  /\ lastResponse = MockResponse("completion")
  /\ ~isLoading /\ loadPc = "none" /\ extPc = "idle"
  /\ currentModel = NULL
  /\ modelMetadata = NULL
  /\ ~resourcesAllocated
  /\ activeInferences = 0

====
